---- MODULE Spec2Model ----
(***************************************************************************)
(* Model of the asynchronous file-classification pipeline                  *)
(* (tanaymurdia/join-the-siege): the Redis message broker, the ingest API, *)
(* the classification worker and the worker scaling service.               *)
(*                                                                         *)
(* Fault model: a Redis command issued while the broker is unreachable     *)
(* raises redis.exceptions.ConnectionError and has no effect; a command    *)
(* issued while it is reachable takes effect atomically.  The broker goes  *)
(* down and comes back at any time (BrokerDown / BrokerUp).                *)
(*                                                                         *)
(* Task ids: uuid.uuid4() is modelled as minting the next unused number,   *)
(* so the id of a task is also its position in the order of submission.    *)
(* The staged file of a request is named by the same number (every staged  *)
(* request mints exactly one task id).                                     *)
(***************************************************************************)
EXTENDS Integers, Sequences, FiniteSets, TLC

VARIABLES
    \* ---- Redis (shared by API, workers and scaling service)
    redis_up,        \* TRUE when the broker answers commands
    queue,           \* list 'classification_tasks'; index 1 is the LEFT end
    task_data,       \* ids whose key task_data_<id> exists
    task_status,     \* id -> record stored under task_status_<id>
    results,         \* id -> list classification_results_<id>
    metrics,         \* hash 'worker_scaling_metrics': field -> value
    \* ---- shared temp directory files/temp
    files,           \* staged files that exist on disk
    \* ---- API process, POST /classify_file (one handler runs at a time)
    api_pc, api_req, api_response, next_id,
    \* ---- API process, GET /classification/{id}: last status each client saw
    observed,
    \* ---- API process, GET /classification/{id}: the last answer
    get_response,
    \* ---- workers
    w_pc, w_task, w_label, w_err, w_local,
    \* ---- history of the run
    pop_log,         \* the tasks popped off the queue, in the order of the pops
    returned,        \* tasks for which process_task returned normally
    failure,         \* id -> what went wrong while resolving / classifying
    \* ---- scaling service (API process) and wall clock
    now,             \* time.time(), in seconds
    current_worker_count, last_scaling_time,   \* WorkerScalingService fields
    mon_pc, mon_local,       \* monitor_loop: position and locals
    sw_pc, sw_target,        \* scale_workers, per caller: position, target_count
    man_response,            \* last answer of POST /scaling/workers/{n}
    man_count,               \* manual scaling requests received so far
    sw_call,                 \* per caller: the count it last asked for and
                             \* what became of the orchestrator command
    \* ---- workers: ClassificationWorker.running
    w_running,
    \* ---- a caller of get_classification_result: its last call and outcome
    wait_response,
    \* ---- API process: the last answers of GET /health and GET /scaling/status
    health_response, status_response,
    \* ---- AdvancedFileClassifier.predict: its last inputs and its label
    prediction,
    \* ---- get_worker_stats: the inputs of its last call and its answer
    stats_call

broker_vars == <<queue, task_data, task_status, results>>
api_vars    == <<api_pc, api_req, api_response, next_id>>
worker_vars == <<w_pc, w_task, w_label, w_err, w_local>>
hist_vars   == <<pop_log, returned, failure>>
scale_vars  == <<now, current_worker_count, last_scaling_time, metrics,
                 mon_pc, mon_local, sw_pc, sw_target, man_response, man_count, sw_call>>
\* The shutdown flags (and, further down, the answers of the other endpoints)
aux_vars    == <<w_running, wait_response, health_response, status_response,
                 prediction, stats_call>>
vars == <<redis_up, broker_vars, files, api_vars, observed, get_response, worker_vars,
          hist_vars, scale_vars, aux_vars>>

----------------------------------------------------------------------------
\* Bounds of the model
MaxTasks   == 2      \* task ids minted
NumWorkers == 2      \* worker processes
MaxPolled  == 1      \* tasks whose status a client polls
StartTime  == 120    \* the clock when the API process starts
MaxTime    == 180    \* the clock stops here
ClockStep  == 30     \* granularity of the clock
MaxManual  == 1      \* manual scaling requests
MaxScore   == 13     \* keywords of one document type found in a file

Tasks   == 1..MaxTasks
Workers == 1..NumWorkers

----------------------------------------------------------------------------
\* Program constants
MAX_FILE_SIZE == 52428800

\* A file name is a sequence of one-character strings.
Dot == "."
Pdf  == <<".", "p", "d", "f">>
Docx == <<".", "d", "o", "c", "x">>
Xlsx == <<".", "x", "l", "s", "x">>
Jpg  == <<".", "j", "p", "g">>
Jpeg == <<".", "j", "p", "e", "g">>
Png  == <<".", "p", "n", "g">>
Txt  == <<".", "t", "x", "t">>
ALLOWED_FILE_EXTENSIONS == {Pdf, Docx, Xlsx, Jpg, Jpeg, Png, Txt}

\* str.lower() on the characters that occur in the model's file names
LowerChar(c) ==
    CASE c = "P" -> "p"
      [] c = "D" -> "d"
      [] c = "F" -> "f"
      [] c = "T" -> "t"
      [] c = "X" -> "x"
      [] OTHER   -> c

Lower(s) == [i \in 1..Len(s) |-> LowerChar(s[i])]

MaxOf(S) == CHOOSE x \in S : \A y \in S : y <= x

\* os.path.splitext(name)[1]: from the last dot on, unless only dots precede it
SplitExt(name) ==
    LET dots == {i \in 1..Len(name) : name[i] = Dot}
    IN  IF dots = {} THEN <<>>
        ELSE LET d == MaxOf(dots)
             IN  IF \E j \in 1..(d - 1) : name[j] # Dot
                 THEN SubSeq(name, d, Len(name))
                 ELSE <<>>

\* Mutant of ExtensionAllowed: the extension is compared as typed
ExtensionAllowedAsTyped(name) == SplitExt(name) \in ALLOWED_FILE_EXTENSIONS

\* main.py: file_ext not in ALLOWED_FILE_EXTENSIONS (after .lower())
ExtensionAllowed(name) == Lower(SplitExt(name)) \in ALLOWED_FILE_EXTENSIONS

\* main.py: file_size > MAX_FILE_SIZE
TooLarge(size) == size > MAX_FILE_SIZE

\* Inputs of POST /classify_file the model draws from
FileNames ==
    { <<"a">> \o Pdf,                      \* a.pdf
      <<"a", ".", "P", "D", "F">>,         \* a.PDF
      <<"a", ".", "x", "y", "z">>,         \* a.xyz
      <<"a", ".", "t", "x", "t", ".", "x", "y", "z">>,   \* a.txt.xyz
      <<".", "p", "d", "f">>,              \* .pdf (no extension: leading dot)
      <<"a">> }                            \* a
FileSizes == {0, MAX_FILE_SIZE, MAX_FILE_SIZE + 1}

NoName == <<>>
NoReq  == [name |-> NoName, size |-> 0]
NoResponse == [code |-> 0, name |-> NoName, size |-> 0]

\* Status records (JSON under task_status_<id>); "absent" is a missing key
Absent == "absent"
Missing == [status |-> "missing", predicted_type |-> Absent,
            success |-> Absent, error |-> Absent,
            task_id |-> 0, filename |-> NoName]
PendingRecord(task_id, filename) ==
    [status |-> "pending", predicted_type |-> Absent,
     success |-> Absent, error |-> Absent,
     task_id |-> task_id, filename |-> filename]

\* Document types the trained model predicts, and predict()'s error value
DocTypes == {"bank_statement"}
UnknownFile == "unknown_file"

----------------------------------------------------------------------------
\* MessageBroker

\* Mutant of UpdatedRecord: a new record is written instead of the stored
\* one with the fields replaced
UpdatedRecordFresh(rec, status, predicted_type, success, error) ==
    [status         |-> status,
     predicted_type |-> predicted_type,
     success        |-> success,
     error          |-> error,
     task_id        |-> rec.task_id,
     filename       |-> NoName]

\* Mutant of UpdatedRecord: success is written only when it is truthy
UpdatedRecordTruthy(rec, status, predicted_type, success, error) ==
    [status         |-> status,
     predicted_type |-> IF predicted_type # Absent THEN predicted_type
                        ELSE rec.predicted_type,
     success        |-> IF success = "true" THEN success ELSE rec.success,
     error          |-> IF error # Absent THEN error ELSE rec.error,
     task_id        |-> rec.task_id,
     filename       |-> rec.filename]

\* update_task_status, second half: the record written back by setex
UpdatedRecord(rec, status, predicted_type, success, error) ==
    [status         |-> status,
     predicted_type |-> IF predicted_type # Absent THEN predicted_type
                        ELSE rec.predicted_type,
     success        |-> IF success # Absent THEN success ELSE rec.success,
     error          |-> IF error # Absent THEN error ELSE rec.error,
     task_id        |-> rec.task_id,
     filename       |-> rec.filename]

\* send_classification_result: the JSON pushed onto the result queue
ResultData(file_type, success, error) ==
    [predicted_type |-> file_type, success |-> success, error |-> error]

\* redis lpush: the new element becomes the head (left end)
LPush(list, x) == <<x>> \o list

\* redis rpush: the new element becomes the tail (right end)
RPush(list, x) == Append(list, x)

\* redis blpop on a non-empty list: takes the head (left end)
BLPopItem(list) == Head(list)
BLPopRest(list) == Tail(list)

----------------------------------------------------------------------------
\* The broker becomes unreachable / reachable again
BrokerDown ==
    /\ redis_up
    /\ redis_up' = FALSE
    /\ UNCHANGED <<broker_vars, files, api_vars, observed, get_response, worker_vars,
                   hist_vars, scale_vars, aux_vars>>

BrokerUp ==
    /\ ~redis_up
    /\ redis_up' = TRUE
    /\ UNCHANGED <<broker_vars, files, api_vars, observed, get_response, worker_vars,
                   hist_vars, scale_vars, aux_vars>>

\* The key task_status_<id>, written with setex(..., task_expiry, ...),
\* expires
StatusExpires(t) ==
    /\ task_status[t] # Missing
    /\ task_status' = [task_status EXCEPT ![t] = Missing]
    /\ UNCHANGED <<redis_up, aux_vars, queue, task_data, results, files,
                   api_vars, observed, get_response, worker_vars, hist_vars,
                   scale_vars>>

\* A staged file of a task nobody has claimed yet disappears (reaped by the
\* external janitor, or not visible in the worker's mount)
FileLost(t) ==
    /\ t \in files
    /\ \E i \in 1..Len(queue) : queue[i] = t
    /\ files' = files \ {t}
    /\ UNCHANGED <<redis_up, aux_vars, broker_vars, api_vars, observed, get_response, worker_vars,
                   hist_vars, scale_vars>>

----------------------------------------------------------------------------
\* POST /classify_file (main.py start_classification)

\* Validation, then staging of the upload in files/temp.  Nothing between
\* the arrival of the request and the first broker call yields to another
\* handler's broker calls, so this is one step.
Receive(name, size) ==
    /\ api_pc = "idle"
    /\ IF ~ExtensionAllowed(name)
       THEN /\ api_response' = [code |-> 415, name |-> name, size |-> size]
            /\ UNCHANGED <<api_pc, api_req, files>>
       ELSE IF TooLarge(size)
       THEN /\ api_response' = [code |-> 413, name |-> name, size |-> size]
            /\ UNCHANGED <<api_pc, api_req, files>>
       ELSE /\ next_id <= MaxTasks
            /\ files' = files \cup {next_id}
            /\ api_req' = [name |-> name, size |-> size]
            /\ api_response' = NoResponse
            /\ api_pc' = "staged"
    /\ UNCHANGED <<redis_up, aux_vars, broker_vars, next_id, observed, get_response, worker_vars,
                   hist_vars, scale_vars>>

\* What a broker call raises while the broker is unreachable: a
\* redis.exceptions.ConnectionError, or another error (redis-py's
\* TimeoutError is not a ConnectionError)
BrokerErrors == {"ConnectionError", "TimeoutError"}

\* main.py: the status code of the except clause that catches the error
SubmitErrorCode(err) == IF err = "ConnectionError" THEN 503 ELSE 500

\* Mutant of SubmitFailed: the staged file is left behind
SubmitFailedKeepsFile ==
    /\ \E err \in BrokerErrors :
          api_response' = [code |-> SubmitErrorCode(err), name |-> NoName,
                           size |-> 0]
    /\ api_req' = NoReq
    /\ api_pc' = "idle"
    /\ next_id' = next_id + 1
    /\ UNCHANGED files

\* except redis.exceptions.ConnectionError / except Exception around
\* send_classification_task: remove the staged file, answer 503 / 500
SubmitFailed ==
    /\ files' = files \ {next_id}
    /\ \E err \in BrokerErrors :
          api_response' = [code |-> SubmitErrorCode(err), name |-> NoName,
                           size |-> 0]
    /\ api_req' = NoReq
    /\ api_pc' = "idle"
    /\ next_id' = next_id + 1

\* send_classification_task: setex task_data_<id>
SubmitSetexData ==
    /\ api_pc = "staged"
    /\ IF redis_up
       THEN /\ task_data' = task_data \cup {next_id}
            /\ api_pc' = "data_written"
            /\ UNCHANGED <<files, api_req, api_response, next_id>>
       ELSE /\ SubmitFailed
            /\ UNCHANGED task_data
    /\ UNCHANGED <<redis_up, aux_vars, queue, task_status, results, observed, get_response,
                   worker_vars, hist_vars, scale_vars>>

\* Mutant of SubmitSetexStatus: the status record is never written
SubmitSetexStatusOmitted ==
    /\ api_pc = "data_written"
    /\ IF redis_up
       THEN /\ api_pc' = "status_written"
            /\ UNCHANGED <<files, api_req, api_response, next_id>>
       ELSE SubmitFailed
    /\ UNCHANGED <<redis_up, aux_vars, broker_vars, observed, get_response, worker_vars, hist_vars,
                   scale_vars>>

\* send_classification_task: setex task_status_<id> {status: pending}
SubmitSetexStatus ==
    /\ api_pc = "data_written"
    /\ IF redis_up
       THEN /\ task_status' = [task_status EXCEPT ![next_id] =
                   PendingRecord(next_id, api_req.name)]
            /\ api_pc' = "status_written"
            /\ UNCHANGED <<files, api_req, api_response, next_id>>
       ELSE /\ SubmitFailed
            /\ UNCHANGED task_status
    /\ UNCHANGED <<redis_up, aux_vars, queue, task_data, results, observed, get_response,
                   worker_vars, hist_vars, scale_vars>>

\* Mutant of SubmitLpush: the next submit gets the same task id again
SubmitLpushSameId ==
    /\ api_pc = "status_written"
    /\ IF redis_up
       THEN /\ queue' = LPush(queue, next_id)
            /\ api_response' = [code |-> 202, name |-> NoName, size |-> 0]
            /\ api_req' = NoReq
            /\ api_pc' = "idle"
            /\ UNCHANGED <<files, next_id>>
       ELSE /\ SubmitFailed
            /\ UNCHANGED queue
    /\ UNCHANGED <<redis_up, aux_vars, task_data, task_status, results, observed, get_response,
                   worker_vars, hist_vars, scale_vars>>

\* send_classification_task: lpush classification_tasks; then 202
SubmitLpush ==
    /\ api_pc = "status_written"
    /\ IF redis_up
       THEN /\ queue' = LPush(queue, next_id)
            /\ api_response' = [code |-> 202, name |-> NoName, size |-> 0]
            /\ api_req' = NoReq
            /\ api_pc' = "idle"
            /\ next_id' = next_id + 1
            /\ UNCHANGED files
       ELSE /\ SubmitFailed
            /\ UNCHANGED queue
    /\ UNCHANGED <<redis_up, aux_vars, task_data, task_status, results, observed, get_response,
                   worker_vars, hist_vars, scale_vars>>

\* GET /classification/{task_id}: 200 with the stored status record.  (A
\* missing record gives 404 and an unreachable broker 503: no status value.)
Poll(t) ==
    /\ redis_up
    /\ task_status[t] # Missing
    /\ observed' = [observed EXCEPT ![t] = task_status[t].status]
    /\ UNCHANGED <<redis_up, aux_vars, get_response, broker_vars, files, api_vars, worker_vars,
                   hist_vars, scale_vars>>

\* ---- GET /classification/{task_id} with its answers (main.py
\* ---- get_classification_status)

\* len(task_id) < 10 is answered 400; str(uuid.uuid4()) has 36 characters
TASK_ID_MIN_LENGTH == 10
UUID_LENGTH == 36

\* ClassificationStatusResponse.status: Literal[...]
StatusLiteral == {"pending", "processing", "completed", "failed"}

\* A request is the length of the id in the path and the task the id names
\* (0: the id of no task)
GetRequests ==
    {[len |-> l, task |-> 0] : l \in {TASK_ID_MIN_LENGTH - 1,
                                      TASK_ID_MIN_LENGTH}}
      \cup {[len |-> UUID_LENGTH, task |-> t] : t \in 1..MaxPolled}

NoGetResponse ==
    [code |-> 0, len |-> 0, task |-> 0, status |-> "none", error |-> "none"]

\* An answer, with the request it answers and the error the handler caught
GetAnswer(req, code, status, error) ==
    [code |-> code, len |-> req.len, task |-> req.task, status |-> status,
     error |-> error]

\* redis get task_status_<id>: the record, or Missing
StoredStatus(task) == IF task \in Tasks THEN task_status[task] ELSE Missing

\* except redis.exceptions.ConnectionError: 503; except Exception: 500
GetErrorCode(err) == IF err = "ConnectionError" THEN 503 ELSE 500

\* Mutant of GetClassificationStatus: the broker is read before the length
\* of the id is looked at
GetClassificationStatusReadsFirst(req) ==
    /\ IF ~redis_up
       THEN \E err \in BrokerErrors :
               get_response' = GetAnswer(req, GetErrorCode(err), "none", err)
       ELSE IF req.len < TASK_ID_MIN_LENGTH
       THEN get_response' = GetAnswer(req, 400, "none", "none")
       ELSE IF StoredStatus(req.task) = Missing
       THEN get_response' = GetAnswer(req, 404, "none", "none")
       ELSE get_response' =
               GetAnswer(req, 200, StoredStatus(req.task).status, "none")
    /\ UNCHANGED <<redis_up, aux_vars, broker_vars, files, api_vars, observed,
                   worker_vars, hist_vars, scale_vars>>

\* get_classification_status: the length test, get_task_status, then
\* ClassificationStatusResponse(**status_data), whose validation error is
\* caught by except Exception
GetClassificationStatus(req) ==
    /\ IF req.len < TASK_ID_MIN_LENGTH
       THEN get_response' = GetAnswer(req, 400, "none", "none")
       ELSE IF ~redis_up
       THEN \E err \in BrokerErrors :
               get_response' = GetAnswer(req, GetErrorCode(err), "none", err)
       ELSE IF StoredStatus(req.task) = Missing
       THEN get_response' = GetAnswer(req, 404, "none", "none")
       ELSE IF StoredStatus(req.task).status \notin StatusLiteral
       THEN get_response' = GetAnswer(req, 500, "none", "ValidationError")
       ELSE get_response' =
               GetAnswer(req, 200, StoredStatus(req.task).status, "none")
    /\ UNCHANGED <<redis_up, aux_vars, broker_vars, files, api_vars, observed,
                   worker_vars, hist_vars, scale_vars>>

\* ---- get_classification_result(result_queue, timeout)
\* (message_broker.py), called with the result queue of a task that
\* send_classification_task has returned

\* ---- AdvancedFileClassifier.predict (model/core/classifier_trainer.py)

\* SyntheticDataGenerator.document_types, in the order of the dict: the first
\* three of its six types
Categories == <<"drivers_license", "bank_statement", "invoice">>
NoKeywordPrediction == "None"

\* type_scores: for each document type, how many of its keywords the text holds
ScoreVectors == [1..Len(Categories) -> 0..MaxScore]

\* The classes the trained model answers with
ModelClasses == {Categories[i] : i \in 1..Len(Categories)}

NoPrediction == [scores |-> [i \in 1..Len(Categories) |-> 0],
                 model |-> "none", label |-> "none"]

\* sorted(type_scores.items(), key=score, reverse=True): descending by score;
\* the sort is stable, so equal scores keep the order of the dict
SortedScores(type_scores) ==
    CHOOSE p \in [1..Len(Categories) -> 1..Len(Categories)] :
        \A i, j \in 1..Len(Categories) :
            i < j => \/ type_scores[p[i]] > type_scores[p[j]]
                     \/ /\ type_scores[p[i]] = type_scores[p[j]]
                        /\ p[i] < p[j]

\* The loop over sorted_scores: only its first entry can raise highest_score,
\* and only if its score is positive.  keyword_confidence is kept as the
\* fraction <<numerator, denominator>> that the float division is made from.
KeywordVote(type_scores) ==
    LET sorted == SortedScores(type_scores)
        top    == type_scores[sorted[1]]
        second == type_scores[sorted[2]]
    IN  IF top > 0
        THEN [keyword_prediction |-> Categories[sorted[1]],
              highest_score      |-> top,
              keyword_confidence |-> IF second > 0 THEN <<top, top + second>>
                                     ELSE <<1, 1>>]
        ELSE [keyword_prediction |-> NoKeywordPrediction,
              highest_score      |-> 0,
              keyword_confidence |-> <<0, 1>>]

\* keyword_confidence > 0.65, with 0.65 = 13/20.  For scores this small the
\* quotient of the two floats is either the double of 0.65 itself or further
\* from it than any rounding, so the float test and this one agree.
AboveThreshold(confidence) == 20 * confidence[1] > 13 * confidence[2]

\* Mutant of FinalPrediction: a confidence of exactly 0.65 overrides too
FinalPredictionAtThreshold(type_scores, model_prediction) ==
    LET kw == KeywordVote(type_scores)
    IN  IF /\ kw.keyword_prediction # NoKeywordPrediction
           /\ kw.highest_score >= 3
           /\ 20 * kw.keyword_confidence[1] >= 13 * kw.keyword_confidence[2]
           /\ kw.keyword_prediction # model_prediction
        THEN kw.keyword_prediction
        ELSE model_prediction

\* final_prediction = model_prediction, replaced by the keyword prediction
\* under the two nested ifs
FinalPrediction(type_scores, model_prediction) ==
    LET kw == KeywordVote(type_scores)
    IN  IF /\ kw.keyword_prediction # NoKeywordPrediction
           /\ kw.highest_score >= 3
           /\ AboveThreshold(kw.keyword_confidence)
           /\ kw.keyword_prediction # model_prediction
        THEN kw.keyword_prediction
        ELSE model_prediction

\* Before the first request to GET /health and to GET /scaling/status
NoHealth == [code |-> 0, status |-> "none", redis |-> "none", count |-> 0]
NoStatus == [code |-> 0, current_worker_count |-> 0, min_workers |-> 0,
             max_workers |-> 0]

NoWait == [task |-> 0, outcome |-> "none"]

\* Mutant of GetClassificationResult: a timeout takes the task off the task
\* queue
GetClassificationResultCancels(t) ==
    /\ t < next_id
    /\ IF ~redis_up
       THEN /\ wait_response' = [task |-> t, outcome |-> "raised"]
            /\ UNCHANGED <<results, queue>>
       ELSE IF results[t] = <<>>
       THEN /\ wait_response' = [task |-> t, outcome |-> "timeout"]
            /\ queue' = SelectSeq(queue, LAMBDA x : x # t)
            /\ UNCHANGED results
       ELSE /\ wait_response' = [task |-> t, outcome |-> "result"]
            /\ results' = [results EXCEPT ![t] = BLPopRest(@)]
            /\ UNCHANGED queue
    /\ UNCHANGED <<redis_up, stats_call, w_running, health_response, status_response,
                   prediction, task_data, task_status, files,
                   api_vars, observed, get_response, worker_vars, hist_vars,
                   scale_vars>>

\* blpop(result_queue, timeout): the first element, or None when the wait
\* ends with the list still empty; a broker error is raised to the caller
GetClassificationResult(t) ==
    /\ t < next_id
    /\ IF ~redis_up
       THEN /\ wait_response' = [task |-> t, outcome |-> "raised"]
            /\ UNCHANGED results
       ELSE IF results[t] = <<>>
       THEN /\ wait_response' = [task |-> t, outcome |-> "timeout"]
            /\ UNCHANGED results
       ELSE /\ wait_response' = [task |-> t, outcome |-> "result"]
            /\ results' = [results EXCEPT ![t] = BLPopRest(@)]
    /\ UNCHANGED <<redis_up, stats_call, w_running, health_response, status_response,
                   prediction, queue, task_data, task_status, files,
                   api_vars, observed, get_response, worker_vars, hist_vars,
                   scale_vars>>

----------------------------------------------------------------------------
\* ClassificationWorker (worker.py) and the broker calls it makes

\* Leaving the loop body: the worker's locals are dead
WorkerReset(w) ==
    /\ w_pc'    = [w_pc EXCEPT ![w] = "idle"]
    /\ w_task'  = [w_task EXCEPT ![w] = 0]
    /\ w_label' = [w_label EXCEPT ![w] = Absent]
    /\ w_err'   = [w_err EXCEPT ![w] = Absent]
    /\ w_local' = [w_local EXCEPT ![w] = Missing]

\* Mutant of WorkerLoopError: the exception ends run()
WorkerLoopErrorExits(w) ==
    /\ w_pc'    = [w_pc EXCEPT ![w] = "stopped"]
    /\ w_task'  = [w_task EXCEPT ![w] = 0]
    /\ w_label' = [w_label EXCEPT ![w] = Absent]
    /\ w_err'   = [w_err EXCEPT ![w] = Absent]
    /\ w_local' = [w_local EXCEPT ![w] = Missing]

\* run(): "except Exception" around get_next_classification_task and
\* process_task: log, sleep 1 s, next iteration.  The task in hand is gone.
WorkerLoopError(w) == WorkerReset(w)

\* Entering the except branch of process_task with error str(e)
WorkerToExcept(w, e) ==
    /\ w_pc'    = [w_pc EXCEPT ![w] = "fail_rpush"]
    /\ w_err'   = [w_err EXCEPT ![w] = e]
    /\ w_local' = [w_local EXCEPT ![w] = Missing]
    /\ UNCHANGED <<w_task, w_label>>

\* Mutant of WorkerBlpop: the task is read off the queue and left there
WorkerBlpopPeeks(w) ==
    /\ \/ w_pc[w] = "idle" /\ w_running[w]
       \/ w_pc[w] = "blpop"
    /\ redis_up
    /\ queue # <<>>
    /\ w_task' = [w_task EXCEPT ![w] = BLPopItem(queue)]
    /\ w_pc' = [w_pc EXCEPT ![w] = "claim_get"]
    /\ pop_log' = Append(pop_log, BLPopItem(queue))
    /\ UNCHANGED <<redis_up, aux_vars, broker_vars, files, api_vars,
                   observed, get_response, w_label, w_err, w_local, returned, failure,
                   scale_vars>>

\* get_next_classification_task: blpop(task_queue, timeout=1) with a hit.
\* (A timeout returns None and a broker error is caught by run(): in both
\* cases the loop starts over with nothing changed.)  At "idle" the worker
\* is at the test of `while self.running`, here taken together with the
\* call it leads to; at "blpop" the test is behind it and the call under way.
WorkerBlpop(w) ==
    /\ \/ w_pc[w] = "idle" /\ w_running[w]
       \/ w_pc[w] = "blpop"
    /\ redis_up
    /\ queue # <<>>
    /\ queue' = BLPopRest(queue)
    /\ w_task' = [w_task EXCEPT ![w] = BLPopItem(queue)]
    /\ w_pc' = [w_pc EXCEPT ![w] = "claim_get"]
    /\ pop_log' = Append(pop_log, BLPopItem(queue))
    /\ UNCHANGED <<redis_up, aux_vars, task_data, task_status, results, files, api_vars,
                   observed, get_response, w_label, w_err, w_local, returned, failure,
                   scale_vars>>

\* Mutant of WorkerClaimGet: the status is left as it is
WorkerClaimGetSkipsUpdate(w) ==
    /\ w_pc[w] = "claim_get"
    /\ IF redis_up
       THEN /\ w_pc' = [w_pc EXCEPT ![w] = "process"]
            /\ UNCHANGED <<w_task, w_label, w_err, w_local>>
       ELSE WorkerLoopError(w)
    /\ UNCHANGED <<redis_up, aux_vars, broker_vars, files, api_vars, observed,
                   get_response, hist_vars, scale_vars>>

\* update_task_status(task_id, 'processing'): redis get
WorkerClaimGet(w) ==
    /\ w_pc[w] = "claim_get"
    /\ IF redis_up
       THEN IF task_status[w_task[w]] = Missing
            THEN /\ w_pc' = [w_pc EXCEPT ![w] = "process"]
                 /\ UNCHANGED <<w_task, w_label, w_err, w_local>>
            ELSE /\ w_local' = [w_local EXCEPT ![w] = task_status[w_task[w]]]
                 /\ w_pc' = [w_pc EXCEPT ![w] = "claim_setex"]
                 /\ UNCHANGED <<w_task, w_label, w_err>>
       ELSE WorkerLoopError(w)
    /\ UNCHANGED <<redis_up, aux_vars, broker_vars, files, api_vars, observed, get_response,
                   hist_vars, scale_vars>>

\* Mutant of WorkerClaimSetex: the status written is not one the status
\* response allows
WorkerClaimSetexInProgress(w) ==
    /\ w_pc[w] = "claim_setex"
    /\ IF redis_up
       THEN /\ task_status' = [task_status EXCEPT ![w_task[w]] =
                   UpdatedRecord(w_local[w], "in_progress", Absent, Absent, Absent)]
            /\ w_pc' = [w_pc EXCEPT ![w] = "process"]
            /\ w_local' = [w_local EXCEPT ![w] = Missing]
            /\ UNCHANGED <<w_task, w_label, w_err>>
       ELSE /\ WorkerLoopError(w)
            /\ UNCHANGED task_status
    /\ UNCHANGED <<redis_up, aux_vars, queue, task_data, results, files, api_vars,
                   observed, get_response, hist_vars, scale_vars>>

\* update_task_status(task_id, 'processing'): redis setex
WorkerClaimSetex(w) ==
    /\ w_pc[w] = "claim_setex"
    /\ IF redis_up
       THEN /\ task_status' = [task_status EXCEPT ![w_task[w]] =
                   UpdatedRecord(w_local[w], "processing", Absent, Absent, Absent)]
            /\ w_pc' = [w_pc EXCEPT ![w] = "process"]
            /\ w_local' = [w_local EXCEPT ![w] = Missing]
            /\ UNCHANGED <<w_task, w_label, w_err>>
       ELSE /\ WorkerLoopError(w)
            /\ UNCHANGED task_status
    /\ UNCHANGED <<redis_up, aux_vars, queue, task_data, results, files, api_vars,
                   observed, get_response, hist_vars, scale_vars>>

\* process_task: resolve the file path (as given, or under /app), then
\* classifier_service.classify_file.  AdvancedFileClassifier.predict catches
\* every exception of text extraction, feature extraction and the model and
\* returns "unknown_file" instead.
WorkerProcess(w) ==
    /\ w_pc[w] = "process"
    /\ IF w_task[w] \notin files
       THEN /\ WorkerToExcept(w, "FileNotFoundError")
            /\ failure' = [failure EXCEPT ![w_task[w]] = "missing_file"]
       ELSE \E outcome \in DocTypes \cup {UnknownFile} :
            /\ w_label' = [w_label EXCEPT ![w] = outcome]
            /\ w_pc' = [w_pc EXCEPT ![w] = "pub_rpush"]
            /\ failure' = [failure EXCEPT ![w_task[w]] =
                   IF outcome = UnknownFile THEN "classifier_error" ELSE @]
            /\ UNCHANGED <<w_task, w_err, w_local>>
    /\ UNCHANGED <<redis_up, aux_vars, broker_vars, files, api_vars, observed, get_response,
                   pop_log, returned, scale_vars>>

\* send_classification_result(success=True): rpush onto the result queue
WorkerPubRpush(w) ==
    /\ w_pc[w] = "pub_rpush"
    /\ IF redis_up
       THEN /\ results' = [results EXCEPT ![w_task[w]] =
                   RPush(@, ResultData(w_label[w], "true", Absent))]
            /\ w_pc' = [w_pc EXCEPT ![w] = "pub_get"]
            /\ UNCHANGED <<w_task, w_label, w_err, w_local>>
       ELSE /\ WorkerToExcept(w, "ConnectionError")
            /\ UNCHANGED results
    /\ UNCHANGED <<redis_up, aux_vars, queue, task_data, task_status, files, api_vars,
                   observed, get_response, hist_vars, scale_vars>>

\* update_task_status(task_id, 'completed', file_type, True): redis get
WorkerPubGet(w) ==
    /\ w_pc[w] = "pub_get"
    /\ IF redis_up
       THEN IF task_status[w_task[w]] = Missing
            THEN /\ w_pc' = [w_pc EXCEPT ![w] = "cleanup"]
                 /\ UNCHANGED <<w_task, w_label, w_err, w_local>>
            ELSE /\ w_local' = [w_local EXCEPT ![w] = task_status[w_task[w]]]
                 /\ w_pc' = [w_pc EXCEPT ![w] = "pub_setex"]
                 /\ UNCHANGED <<w_task, w_label, w_err>>
       ELSE WorkerToExcept(w, "ConnectionError")
    /\ UNCHANGED <<redis_up, aux_vars, broker_vars, files, api_vars, observed, get_response,
                   hist_vars, scale_vars>>

\* Mutant of WorkerPubSetex: the completed status is not written
WorkerPubSetexOmitted(w) ==
    /\ w_pc[w] = "pub_setex"
    /\ w_pc' = [w_pc EXCEPT ![w] = "cleanup"]
    /\ w_local' = [w_local EXCEPT ![w] = Missing]
    /\ UNCHANGED <<w_task, w_label, w_err>>
    /\ UNCHANGED <<redis_up, aux_vars, broker_vars, files, api_vars, observed, get_response,
                   hist_vars, scale_vars>>

\* update_task_status(task_id, 'completed', file_type, True): redis setex
WorkerPubSetex(w) ==
    /\ w_pc[w] = "pub_setex"
    /\ IF redis_up
       THEN /\ task_status' = [task_status EXCEPT ![w_task[w]] =
                   UpdatedRecord(w_local[w], "completed", w_label[w], "true", Absent)]
            /\ w_pc' = [w_pc EXCEPT ![w] = "cleanup"]
            /\ w_local' = [w_local EXCEPT ![w] = Missing]
            /\ UNCHANGED <<w_task, w_label, w_err>>
       ELSE /\ WorkerToExcept(w, "ConnectionError")
            /\ UNCHANGED task_status
    /\ UNCHANGED <<redis_up, aux_vars, queue, task_data, results, files, api_vars,
                   observed, get_response, hist_vars, scale_vars>>

\* Mutant of WorkerCleanup: cleanup_temp_file lets its error out, into the
\* except branch of process_task
WorkerCleanupRaises(w) ==
    /\ w_pc[w] = "cleanup"
    /\ WorkerToExcept(w, "OSError")
    /\ UNCHANGED <<redis_up, aux_vars, broker_vars, files, api_vars, observed, get_response,
                   hist_vars, scale_vars>>

\* cleanup_temp_file (swallows its own errors), then process_task returns
WorkerCleanup(w) ==
    /\ w_pc[w] = "cleanup"
    /\ files' = files \ {w_task[w]}
    /\ returned' = returned \cup {w_task[w]}
    /\ WorkerReset(w)
    /\ UNCHANGED <<redis_up, aux_vars, broker_vars, api_vars, observed, get_response, pop_log,
                   failure, scale_vars>>

\* except branch: send_classification_result("unknown", success=False,
\* error=str(e)): rpush onto the result queue
WorkerFailRpush(w) ==
    /\ w_pc[w] = "fail_rpush"
    /\ IF redis_up
       THEN /\ results' = [results EXCEPT ![w_task[w]] =
                   RPush(@, ResultData("unknown", "false", w_err[w]))]
            /\ w_pc' = [w_pc EXCEPT ![w] = "fail_get"]
            /\ UNCHANGED <<w_task, w_label, w_err, w_local>>
       ELSE /\ WorkerLoopError(w)
            /\ UNCHANGED results
    /\ UNCHANGED <<redis_up, aux_vars, queue, task_data, task_status, files, api_vars,
                   observed, get_response, hist_vars, scale_vars>>

\* process_task returns from its except branch (no cleanup_temp_file there)
WorkerExceptReturn(w) ==
    /\ returned' = returned \cup {w_task[w]}
    /\ WorkerReset(w)

\* except branch: update_task_status(task_id, 'failed', "unknown", False,
\* error): redis get
WorkerFailGet(w) ==
    /\ w_pc[w] = "fail_get"
    /\ IF redis_up
       THEN IF task_status[w_task[w]] = Missing
            THEN WorkerExceptReturn(w)
            ELSE /\ w_local' = [w_local EXCEPT ![w] = task_status[w_task[w]]]
                 /\ w_pc' = [w_pc EXCEPT ![w] = "fail_setex"]
                 /\ UNCHANGED <<w_task, w_label, w_err, returned>>
       ELSE /\ WorkerLoopError(w)
            /\ UNCHANGED returned
    /\ UNCHANGED <<redis_up, aux_vars, broker_vars, files, api_vars, observed, get_response,
                   pop_log, failure, scale_vars>>

\* except branch: update_task_status(...'failed'...): redis setex
WorkerFailSetex(w) ==
    /\ w_pc[w] = "fail_setex"
    /\ IF redis_up
       THEN /\ task_status' = [task_status EXCEPT ![w_task[w]] =
                   UpdatedRecord(w_local[w], "failed", "unknown", "false", w_err[w])]
            /\ WorkerExceptReturn(w)
       ELSE /\ WorkerLoopError(w)
            /\ UNCHANGED <<task_status, returned>>
    /\ UNCHANGED <<redis_up, aux_vars, queue, task_data, results, files, api_vars,
                   observed, get_response, pop_log, failure, scale_vars>>

WorkerStep(w) ==
    \/ WorkerBlpop(w)
    \/ WorkerClaimGet(w)
    \/ WorkerClaimSetex(w)
    \/ WorkerProcess(w)
    \/ WorkerPubRpush(w)
    \/ WorkerPubGet(w)
    \/ WorkerPubSetex(w)
    \/ WorkerCleanup(w)
    \/ WorkerFailRpush(w)
    \/ WorkerFailGet(w)
    \/ WorkerFailSetex(w)

\* ---- shutdown of a worker

\* handle_shutdown: SIGINT or SIGTERM arrives, at any point of the loop
HandleShutdown(w) ==
    /\ w_running[w]
    /\ w_running' = [w_running EXCEPT ![w] = FALSE]
    /\ UNCHANGED <<redis_up, stats_call, wait_response, health_response, status_response,
                   prediction, broker_vars, files, api_vars, observed,
                   get_response, worker_vars, hist_vars, scale_vars>>

\* Mutant of WorkerLoopTest: the loop does not look at the flag
WorkerLoopTestIgnoresFlag(w) ==
    /\ w_pc[w] = "idle"
    /\ w_pc' = [w_pc EXCEPT ![w] = "blpop"]
    /\ UNCHANGED <<redis_up, aux_vars, broker_vars, files, api_vars, observed,
                   get_response, w_task, w_label, w_err, w_local, hist_vars,
                   scale_vars>>

\* run(): `while self.running`: on to get_next_classification_task, or out
\* of the loop
WorkerLoopTest(w) ==
    /\ w_pc[w] = "idle"
    /\ w_pc' = [w_pc EXCEPT ![w] = IF w_running[w] THEN "blpop" ELSE "stopped"]
    /\ UNCHANGED <<redis_up, aux_vars, broker_vars, files, api_vars, observed,
                   get_response, w_task, w_label, w_err, w_local, hist_vars,
                   scale_vars>>

\* get_next_classification_task: the blpop under way ends without a task
\* (timeout=1 on an empty queue returns None; a broker error is caught by
\* run()), back to the loop test
WorkerBlpopEmpty(w) ==
    /\ w_pc[w] = "blpop"
    /\ queue = <<>> \/ ~redis_up
    /\ w_pc' = [w_pc EXCEPT ![w] = "idle"]
    /\ UNCHANGED <<redis_up, aux_vars, broker_vars, files, api_vars, observed,
                   get_response, w_task, w_label, w_err, w_local, hist_vars,
                   scale_vars>>

\* The run loop with its test and its shutdown
WorkerRun(w) ==
    \/ WorkerStep(w)
    \/ WorkerLoopTest(w)
    \/ WorkerBlpopEmpty(w)

----------------------------------------------------------------------------
\* WorkerScalingService (worker_scaling.py), configured by its defaults
MIN_WORKERS          == 2
MAX_WORKERS          == 10
WORKER_REPLICAS      == 3
QUEUE_HIGH_THRESHOLD == 20
QUEUE_LOW_THRESHOLD  == 5
SCALING_INTERVAL     == 30
COOLDOWN             == 60
INITIAL_SCALING_AGE  == 120

\* POST /scaling/workers/{count}: Path(ge=1, le=20)
MANUAL_MIN == 1
MANUAL_MAX == 20

\* The counts the model posts: the least and the greatest the endpoint
\* accepts (below MIN_WORKERS, above MAX_WORKERS) and one inside the bounds
ManualCounts == {MANUAL_MIN, 5, MANUAL_MAX}

\* Counts the path validation turns away
InvalidCounts == {MANUAL_MIN - 1, MANUAL_MAX + 1}

Callers == {"monitor", "manual"}

\* The hash worker_scaling_metrics; NoValue is a field that is not set
NoValue == -1
EmptyMetrics ==
    [min_workers |-> NoValue, max_workers |-> NoValue,
     last_scaling_time |-> NoValue, current_worker_count |-> NoValue,
     target_worker_count |-> NoValue]

\* A caller's last request: the count asked for and the outcome of the
\* docker-compose command ("not_called": scale_workers was not called;
\* "not_run": it returned before running the command)
NoCall == [target |-> 0, orchestrator |-> "not_called"]

\* (llen_failed is not a local of the code: it remembers that the 0 in
\* queue_length is the one get_queue_length returns for a broker error)
NoMonLocal == [current_time |-> 0, queue_length |-> 0, worker_count |-> 0,
               wake |-> 0, llen_failed |-> FALSE]

Min(a, b) == IF a < b THEN a ELSE b
Max(a, b) == IF a > b THEN a ELSE b

\* Mutant of Clamp: the upper limit is not applied
ClampLowerOnly(target_count) ==
    IF target_count < MIN_WORKERS THEN MIN_WORKERS ELSE target_count

\* scale_workers: the two clamping ifs
Clamp(target_count) ==
    LET low == IF target_count < MIN_WORKERS THEN MIN_WORKERS ELSE target_count
    IN  IF low > MAX_WORKERS THEN MAX_WORKERS ELSE low

\* get_queue_length: llen, or 0 when the broker call raises
GetQueueLength == IF redis_up THEN Len(queue) ELSE 0

\* os.environ.get('WORKER_REPLICAS'): unset, set to text that int() refuses,
\* or set to a number
EnvUnset == [set |-> FALSE, valid |-> FALSE, value |-> 0]
EnvValues ==
    {EnvUnset, [set |-> TRUE, valid |-> FALSE, value |-> 0],
     [set |-> TRUE, valid |-> TRUE, value |-> 4]}

\* `which docker` and `docker ps --filter name=worker`: listed when docker
\* exists and ps returns 0, with the number of names it printed
NoDocker == [listed |-> FALSE, count |-> 0]
DockerOutcomes ==
    {NoDocker, [listed |-> TRUE, count |-> 0], [listed |-> TRUE, count |-> 1]}

NoStatsCall == [readable |-> FALSE, hash |-> NoValue, env |-> EnvUnset,
                docker |-> NoDocker, in_memory |-> 0, result |-> NoValue]

\* Mutant of WorkerStatsFrom: the environment is asked before the hash
WorkerStatsFromEnvFirst(readable, hash_count, env, docker, in_memory) ==
    IF env.set /\ env.valid THEN env.value
    ELSE IF readable /\ hash_count # NoValue THEN hash_count
    ELSE IF ~env.set THEN in_memory
    ELSE IF docker.listed THEN docker.count
    ELSE in_memory

\* get_worker_stats, its three try blocks and its last line: the hash's
\* current_worker_count when hgetall succeeds and has the field; else
\* int(os.environ.get('WORKER_REPLICAS', self.current_worker_count)); if
\* int() raises, the number of names docker ps lists; else the in-memory
\* count
WorkerStatsFrom(readable, hash_count, env, docker, in_memory) ==
    IF readable /\ hash_count # NoValue THEN hash_count
    ELSE IF ~env.set THEN in_memory
    ELSE IF env.valid THEN env.value
    ELSE IF docker.listed THEN docker.count
    ELSE in_memory

\* get_worker_stats in the API process, where WORKER_REPLICAS is taken as
\* unset
GetWorkerStats ==
    WorkerStatsFrom(redis_up, metrics.current_worker_count, EnvUnset,
                    NoDocker, current_worker_count)

\* Mutant of ScalingDecision: the scale-up test uses twice the threshold
ScalingDecisionHighDoubled(queue_length, worker_count) ==
    IF queue_length > 2 * QUEUE_HIGH_THRESHOLD /\ worker_count < MAX_WORKERS
    THEN Min(MAX_WORKERS, current_worker_count + Max(1, queue_length \div 10))
    ELSE IF queue_length < QUEUE_LOW_THRESHOLD /\ worker_count > MIN_WORKERS
    THEN Max(MIN_WORKERS, current_worker_count - 1)
    ELSE 0

\* check_and_apply_scaling: the target it passes to scale_workers, or 0 when
\* it decides not to scale
ScalingDecision(queue_length, worker_count) ==
    IF queue_length > QUEUE_HIGH_THRESHOLD /\ worker_count < MAX_WORKERS
    THEN Min(MAX_WORKERS, current_worker_count + Max(1, queue_length \div 10))
    ELSE IF queue_length < QUEUE_LOW_THRESHOLD /\ worker_count > MIN_WORKERS
    THEN Max(MIN_WORKERS, current_worker_count - 1)
    ELSE 0

\* GET /scaling/status, field current_worker_count: the hash's value when the
\* hash can be read and holds every field of WorkerScalingStatusResponse
\* (those of the monitor's hmset and those of scale_workers); else the
\* in-memory count (empty hash, validation error or broker error)
ReportedWorkerCount ==
    IF /\ redis_up
       /\ metrics.min_workers # NoValue
       /\ metrics.last_scaling_time # NoValue
       /\ metrics.current_worker_count # NoValue
    THEN metrics.current_worker_count
    ELSE current_worker_count

\* The queue lengths the load on the service produces
QueueLoads == {0, 5, 20, 21, 35}

\* Submits and claims by the rest of the system change the queue's length.
\* The scaling service reads the length only in the monitor's llen, so the
\* change is taken when that read is next.
Workload(n) ==
    /\ mon_pc = "llen"
    /\ Len(queue) # n
    /\ queue' = [i \in 1..n |-> 0]
    /\ UNCHANGED <<redis_up, aux_vars, task_data, task_status, results, files, api_vars,
                   observed, get_response, worker_vars, hist_vars, scale_vars>>

\* The wall clock advances
Tick ==
    /\ now + ClockStep <= MaxTime
    /\ now' = now + ClockStep
    /\ UNCHANGED <<redis_up, aux_vars, broker_vars, files, api_vars, observed, get_response,
                   worker_vars, hist_vars, current_worker_count,
                   last_scaling_time, metrics, mon_pc, mon_local, sw_pc,
                   sw_target, man_response, man_count, sw_call>>

pipeline_vars == <<broker_vars, files, api_vars, observed, get_response, worker_vars,
                   hist_vars>>

\* ---- scale_workers(target_count), called by the monitor loop or by the
\* ---- manual endpoint

\* What happens when scale_workers returns to its caller
ScaleReturn(c) ==
    /\ sw_pc' = [sw_pc EXCEPT ![c] = "idle"]
    /\ sw_target' = [sw_target EXCEPT ![c] = 0]
    /\ IF c = "monitor"
       THEN /\ mon_pc' = "sleep"
            /\ mon_local' = [NoMonLocal EXCEPT !.wake = now + SCALING_INTERVAL]
            /\ UNCHANGED man_response
       ELSE /\ man_response' = 200
            /\ UNCHANGED <<mon_pc, mon_local>>

\* Mutant of ScaleBegin: a failed or raised command still stamps
\* last_scaling_time
ScaleBeginFailureStampsTime(c, target_count, orchestrator) ==
    IF target_count = current_worker_count
    THEN /\ ScaleReturn(c)
         /\ sw_call' = [sw_call EXCEPT ![c] =
                [target |-> target_count, orchestrator |-> "not_run"]]
         /\ UNCHANGED <<current_worker_count, last_scaling_time, metrics>>
    ELSE IF orchestrator \in {"failed", "raised"}
    THEN /\ ScaleReturn(c)
         /\ sw_call' = [sw_call EXCEPT ![c] =
                [target |-> target_count, orchestrator |-> orchestrator]]
         /\ last_scaling_time' = now
         /\ UNCHANGED <<current_worker_count, metrics>>
    ELSE /\ sw_call' = [sw_call EXCEPT ![c] =
                [target |-> target_count, orchestrator |-> orchestrator]]
         /\ sw_pc' = [sw_pc EXCEPT ![c] = "hset_time"]
         /\ sw_target' = [sw_target EXCEPT ![c] = Clamp(target_count)]
         /\ IF c = "monitor"
            THEN mon_pc' = "scaling" /\ UNCHANGED <<mon_local, man_response>>
            ELSE UNCHANGED <<mon_pc, mon_local, man_response>>
         /\ UNCHANGED <<current_worker_count, last_scaling_time, metrics>>

\* Mutant of ScaleBegin: without docker-compose the call returns at once
ScaleBeginUnavailableReturns(c, target_count, orchestrator) ==
    IF target_count = current_worker_count
    THEN /\ ScaleReturn(c)
         /\ sw_call' = [sw_call EXCEPT ![c] =
                [target |-> target_count, orchestrator |-> "not_run"]]
         /\ UNCHANGED <<current_worker_count, last_scaling_time, metrics>>
    ELSE IF orchestrator \in {"failed", "raised", "unavailable"}
    THEN /\ ScaleReturn(c)
         /\ sw_call' = [sw_call EXCEPT ![c] =
                [target |-> target_count, orchestrator |-> orchestrator]]
         /\ UNCHANGED <<current_worker_count, last_scaling_time, metrics>>
    ELSE /\ sw_call' = [sw_call EXCEPT ![c] =
                [target |-> target_count, orchestrator |-> orchestrator]]
         /\ sw_pc' = [sw_pc EXCEPT ![c] = "hset_time"]
         /\ sw_target' = [sw_target EXCEPT ![c] = Clamp(target_count)]
         /\ IF c = "monitor"
            THEN mon_pc' = "scaling" /\ UNCHANGED <<mon_local, man_response>>
            ELSE UNCHANGED <<mon_pc, mon_local, man_response>>
         /\ UNCHANGED <<current_worker_count, last_scaling_time, metrics>>

\* Entry: the equality test, the clamp, then `which docker-compose` and
\* `docker-compose up --scale worker=N -d`
ScaleBegin(c, target_count, orchestrator) ==
    IF target_count = current_worker_count
    THEN /\ ScaleReturn(c)
         /\ sw_call' = [sw_call EXCEPT ![c] =
                [target |-> target_count, orchestrator |-> "not_run"]]
         /\ UNCHANGED <<current_worker_count, last_scaling_time, metrics>>
    ELSE IF orchestrator \in {"failed", "raised"}
    THEN /\ ScaleReturn(c)
         /\ sw_call' = [sw_call EXCEPT ![c] =
                [target |-> target_count, orchestrator |-> orchestrator]]
         /\ UNCHANGED <<current_worker_count, last_scaling_time, metrics>>
    ELSE /\ sw_call' = [sw_call EXCEPT ![c] =
                [target |-> target_count, orchestrator |-> orchestrator]]
         /\ sw_pc' = [sw_pc EXCEPT ![c] = "hset_time"]
         /\ sw_target' = [sw_target EXCEPT ![c] = Clamp(target_count)]
         /\ IF c = "monitor"
            THEN mon_pc' = "scaling" /\ UNCHANGED <<mon_local, man_response>>
            ELSE UNCHANGED <<mon_pc, mon_local, man_response>>
         /\ UNCHANGED <<current_worker_count, last_scaling_time, metrics>>

Orchestrator == {"unavailable", "ok", "failed", "raised"}

\* hset last_scaling_time
ScaleHsetTime(c) ==
    /\ sw_pc[c] = "hset_time"
    /\ IF redis_up
       THEN /\ metrics' = [metrics EXCEPT !.last_scaling_time = now]
            /\ sw_pc' = [sw_pc EXCEPT ![c] = "hset_count"]
            /\ UNCHANGED <<sw_target, mon_pc, mon_local, man_response>>
       ELSE /\ ScaleReturn(c)
            /\ UNCHANGED metrics
    /\ UNCHANGED <<redis_up, aux_vars, pipeline_vars, now, current_worker_count,
                   last_scaling_time, man_count, sw_call>>

\* Mutant of ScaleHsetCount: the count asked for is written, not the clamped
ScaleHsetCountRequested(c) ==
    /\ sw_pc[c] = "hset_count"
    /\ IF redis_up
       THEN /\ metrics' = [metrics EXCEPT
                              !.current_worker_count = sw_call[c].target]
            /\ sw_pc' = [sw_pc EXCEPT ![c] = "hset_target"]
            /\ UNCHANGED <<sw_target, mon_pc, mon_local, man_response>>
       ELSE /\ ScaleReturn(c)
            /\ UNCHANGED metrics
    /\ UNCHANGED <<redis_up, aux_vars, pipeline_vars, now, current_worker_count,
                   last_scaling_time, man_count, sw_call>>

\* hset current_worker_count
ScaleHsetCount(c) ==
    /\ sw_pc[c] = "hset_count"
    /\ IF redis_up
       THEN /\ metrics' = [metrics EXCEPT !.current_worker_count = sw_target[c]]
            /\ sw_pc' = [sw_pc EXCEPT ![c] = "hset_target"]
            /\ UNCHANGED <<sw_target, mon_pc, mon_local, man_response>>
       ELSE /\ ScaleReturn(c)
            /\ UNCHANGED metrics
    /\ UNCHANGED <<redis_up, aux_vars, pipeline_vars, now, current_worker_count,
                   last_scaling_time, man_count, sw_call>>

\* hset target_worker_count
ScaleHsetTarget(c) ==
    /\ sw_pc[c] = "hset_target"
    /\ IF redis_up
       THEN /\ metrics' = [metrics EXCEPT !.target_worker_count = sw_target[c]]
            /\ sw_pc' = [sw_pc EXCEPT ![c] = "commit"]
            /\ UNCHANGED <<sw_target, mon_pc, mon_local, man_response>>
       ELSE /\ ScaleReturn(c)
            /\ UNCHANGED metrics
    /\ UNCHANGED <<redis_up, aux_vars, pipeline_vars, now, current_worker_count,
                   last_scaling_time, man_count, sw_call>>

\* self.last_scaling_time = time.time(); self.current_worker_count = target
ScaleCommit(c) ==
    /\ sw_pc[c] = "commit"
    /\ last_scaling_time' = now
    /\ current_worker_count' = sw_target[c]
    /\ ScaleReturn(c)
    /\ UNCHANGED <<redis_up, aux_vars, pipeline_vars, now, metrics, man_count, sw_call>>

\* ---- POST /scaling/workers/{count} (main.py set_worker_count)
\* count: int = Path(ge=1, le=20): a count outside is answered 422 by the
\* validation handler and set_worker_count does not run
ManualScale(count) ==
    /\ sw_pc["manual"] = "idle"
    /\ man_count < MaxManual
    /\ man_count' = man_count + 1
    /\ IF count < MANUAL_MIN \/ count > MANUAL_MAX
       THEN /\ man_response' = 422
            /\ sw_call' = [sw_call EXCEPT !["manual"] =
                   [target |-> count, orchestrator |-> "not_called"]]
            /\ UNCHANGED <<current_worker_count, last_scaling_time, metrics,
                           mon_pc, mon_local, sw_pc, sw_target>>
       ELSE \E orchestrator \in Orchestrator :
               ScaleBegin("manual", count, orchestrator)
    /\ UNCHANGED <<redis_up, aux_vars, pipeline_vars, now>>

\* ---- monitor_loop

\* current_time = time.time(); queue_length = self.get_queue_length()
MonitorReadQueue ==
    /\ mon_pc = "llen"
    /\ mon_local' = [mon_local EXCEPT !.current_time = now,
                                      !.queue_length = GetQueueLength,
                                      !.llen_failed = ~redis_up]
    /\ mon_pc' = "stats"
    /\ UNCHANGED <<redis_up, aux_vars, pipeline_vars, now, current_worker_count,
                   last_scaling_time, metrics, sw_pc, sw_target, man_response, man_count, sw_call>>

\* actual_worker_count = self.get_worker_stats()
MonitorReadWorkers ==
    /\ mon_pc = "stats"
    /\ mon_local' = [mon_local EXCEPT !.worker_count = GetWorkerStats]
    /\ mon_pc' = "hmset"
    /\ UNCHANGED <<redis_up, aux_vars, pipeline_vars, now, current_worker_count,
                   last_scaling_time, metrics, sw_pc, sw_target, man_response, man_count, sw_call>>

\* hmset of the five metrics; a broker error ends the iteration (except
\* Exception in the loop), which then sleeps.  Of the five fields the model
\* keeps the two whose values are fixed: timestamp, queue_length and
\* worker_count are written in the same command and read by no code but the
\* status endpoint, which passes them on.
MonitorPublish ==
    /\ mon_pc = "hmset"
    /\ IF redis_up
       THEN /\ metrics' = [metrics EXCEPT
                   !.min_workers  = MIN_WORKERS,
                   !.max_workers  = MAX_WORKERS]
            /\ mon_pc' = "decide"
            /\ UNCHANGED mon_local
       ELSE /\ mon_pc' = "sleep"
            /\ mon_local' = [NoMonLocal EXCEPT !.wake = now + SCALING_INTERVAL]
            /\ UNCHANGED metrics
    /\ UNCHANGED <<redis_up, aux_vars, pipeline_vars, now, current_worker_count,
                   last_scaling_time, sw_pc, sw_target, man_response, man_count, sw_call>>

\* The cooldown test of monitor_loop
InCooldown(current_time) == current_time - last_scaling_time < COOLDOWN

\* The cooldown test, then check_and_apply_scaling up to the call of
\* scale_workers and that call's entry
MonitorDecide ==
    /\ mon_pc = "decide"
    /\ LET target == ScalingDecision(mon_local.queue_length,
                                     mon_local.worker_count)
       IN  IF InCooldown(mon_local.current_time) \/ target = 0
           THEN /\ mon_pc' = "sleep"
                /\ mon_local' = [NoMonLocal EXCEPT
                                    !.wake = now + SCALING_INTERVAL]
                /\ UNCHANGED <<current_worker_count, last_scaling_time,
                               metrics, sw_pc, sw_target, man_response, man_count, sw_call>>
           ELSE /\ \E orchestrator \in Orchestrator :
                       ScaleBegin("monitor", target, orchestrator)
                /\ UNCHANGED man_count
    /\ UNCHANGED <<redis_up, aux_vars, pipeline_vars, now>>

\* time.sleep(self.scaling_interval) is over
MonitorWake ==
    /\ mon_pc = "sleep"
    /\ now >= mon_local.wake
    /\ mon_pc' = "llen"
    /\ mon_local' = NoMonLocal
    /\ sw_call' = [sw_call EXCEPT !["monitor"] = NoCall]
    /\ UNCHANGED <<redis_up, aux_vars, pipeline_vars, now, current_worker_count,
                   last_scaling_time, metrics, sw_pc, sw_target, man_response, man_count>>

\* predict on a file whose text gives type_scores and for which the trained
\* model answers model_prediction.  A call leaves nothing behind that a later
\* call reads, so one call is followed.
Predict(type_scores, model_prediction) ==
    /\ prediction = NoPrediction
    /\ prediction' = [scores |-> type_scores, model |-> model_prediction,
                      label |-> FinalPrediction(type_scores, model_prediction)]
    /\ UNCHANGED <<redis_up, stats_call, w_running, wait_response, health_response,
                   status_response, pipeline_vars, scale_vars>>

\* A call of get_worker_stats in a process with the given environment and
\* docker
GetWorkerStatsCall(env, docker) ==
    /\ stats_call' =
          [readable |-> redis_up, hash |-> metrics.current_worker_count,
           env |-> env, docker |-> docker, in_memory |-> current_worker_count,
           result |-> WorkerStatsFrom(redis_up, metrics.current_worker_count,
                                      env, docker, current_worker_count)]
    /\ UNCHANGED <<redis_up, w_running, wait_response, health_response,
                   status_response, prediction, pipeline_vars, scale_vars>>

\* ---- GET /health (main.py health_check)

\* The 200 answer for a discovered worker count
HealthAnswer(worker_count) ==
    [code |-> 200,
     status |-> IF worker_count > 0 THEN "healthy" ELSE "degraded",
     redis |-> "up", count |-> worker_count]

\* The answer when ping raises err: except ConnectionError gives 503; except
\* Exception gives 503 if the error's text contains "redis", else 500 with
\* the error's text and no components
HealthError(err, says_redis) ==
    IF err = "ConnectionError" \/ says_redis
    THEN [code |-> 503, status |-> "unhealthy", redis |-> "down", count |-> 0]
    ELSE [code |-> 500, status |-> "unhealthy", redis |-> "none", count |-> 0]

\* ping, then get_worker_stats (whose hash read can fail after a ping that
\* succeeded: it then falls back to the in-memory count).  Whether the text
\* of an error that is not a ConnectionError contains "redis" is up to the
\* client library.
HealthCheck ==
    /\ IF redis_up
       THEN \E worker_count \in {GetWorkerStats, current_worker_count} :
               health_response' = HealthAnswer(worker_count)
       ELSE \E err \in BrokerErrors, says_redis \in BOOLEAN :
               health_response' = HealthError(err, says_redis)
    /\ UNCHANGED <<redis_up, stats_call, w_running, wait_response, status_response,
                   prediction, pipeline_vars, scale_vars>>

\* ---- GET /scaling/status (main.py get_scaling_status)

\* The values of the service itself: the dict built for an empty hash and the
\* response built in the two except clauses
InMemoryStatus ==
    [code |-> 200, current_worker_count |-> current_worker_count,
     min_workers |-> MIN_WORKERS, max_workers |-> MAX_WORKERS]

\* Mutant of GetScalingStatus: a broker error is answered 503
GetScalingStatusStrict ==
    /\ status_response' =
          IF ~redis_up
          THEN [NoStatus EXCEPT !.code = 503]
          ELSE IF /\ metrics.min_workers # NoValue
                  /\ metrics.max_workers # NoValue
                  /\ metrics.last_scaling_time # NoValue
                  /\ metrics.current_worker_count # NoValue
          THEN [code |-> 200,
                current_worker_count |-> metrics.current_worker_count,
                min_workers |-> metrics.min_workers,
                max_workers |-> metrics.max_workers]
          ELSE InMemoryStatus
    /\ UNCHANGED <<redis_up, stats_call, w_running, wait_response, health_response,
                   prediction, pipeline_vars, scale_vars>>

\* hgetall; an empty hash is replaced by the in-memory values; then
\* WorkerScalingStatusResponse(**metrics), which raises when one of its
\* seven fields is missing; except ConnectionError and except Exception both
\* answer with the in-memory values.  (get_worker_stats and get_queue_length,
\* used for the fields the model leaves out, swallow their errors.)
GetScalingStatus ==
    /\ status_response' =
          IF /\ redis_up
             /\ metrics.min_workers # NoValue
             /\ metrics.max_workers # NoValue
             /\ metrics.last_scaling_time # NoValue
             /\ metrics.current_worker_count # NoValue
          THEN [code |-> 200,
                current_worker_count |-> metrics.current_worker_count,
                min_workers |-> metrics.min_workers,
                max_workers |-> metrics.max_workers]
          ELSE InMemoryStatus
    /\ UNCHANGED <<redis_up, stats_call, w_running, wait_response, health_response,
                   prediction, pipeline_vars, scale_vars>>

ScalingStep ==
    \/ MonitorReadQueue
    \/ MonitorReadWorkers
    \/ MonitorPublish
    \/ MonitorDecide
    \/ MonitorWake
    \/ \E count \in ManualCounts \cup InvalidCounts : ManualScale(count)
    \/ \E c \in Callers :
          \/ ScaleHsetTime(c)
          \/ ScaleHsetCount(c)
          \/ ScaleHsetTarget(c)
          \/ ScaleCommit(c)

----------------------------------------------------------------------------
Init ==
    /\ redis_up = TRUE
    /\ queue = <<>>
    /\ task_data = {}
    /\ task_status = [t \in Tasks |-> Missing]
    /\ results = [t \in Tasks |-> <<>>]
    /\ files = {}
    /\ api_pc = "idle"
    /\ api_req = NoReq
    /\ api_response = NoResponse
    /\ next_id = 1
    /\ observed = [t \in Tasks |-> "none"]
    /\ get_response = NoGetResponse
    /\ w_pc = [w \in Workers |-> "idle"]
    /\ w_task = [w \in Workers |-> 0]
    /\ w_label = [w \in Workers |-> Absent]
    /\ w_err = [w \in Workers |-> Absent]
    /\ w_local = [w \in Workers |-> Missing]
    /\ pop_log = <<>>
    /\ returned = {}
    /\ failure = [t \in Tasks |-> "none"]
    /\ now = StartTime
    /\ current_worker_count = WORKER_REPLICAS
    /\ last_scaling_time = StartTime - INITIAL_SCALING_AGE
    /\ metrics = EmptyMetrics
    /\ mon_pc = "llen"
    /\ mon_local = NoMonLocal
    /\ sw_pc = [c \in Callers |-> "idle"]
    /\ sw_target = [c \in Callers |-> 0]
    /\ man_response = 0
    /\ man_count = 0
    /\ sw_call = [c \in Callers |-> NoCall]
    /\ w_running = [w \in Workers |-> TRUE]
    /\ wait_response = NoWait
    /\ health_response = NoHealth
    /\ status_response = NoStatus
    /\ prediction = NoPrediction
    /\ stats_call = NoStatsCall

\* The uploads of the pipeline specification: valid ones (a rejected upload
\* changes nothing but the response, see ApiSpec)
ValidNames == { <<"a">> \o Pdf }
ValidSizes == {0}

Upload(Names, Sizes) == \E name \in Names, size \in Sizes : Receive(name, size)

ApiStep ==
    \/ Upload(ValidNames, ValidSizes)
    \/ SubmitSetexData
    \/ SubmitSetexStatus
    \/ SubmitLpush
    \/ \E t \in 1..MaxPolled : Poll(t)

Next ==
    \/ BrokerDown
    \/ BrokerUp
    \/ \E t \in Tasks : FileLost(t)
    \/ ApiStep
    \/ \E w \in Workers : WorkerStep(w)

Spec == Init /\ [][Next]_vars

\* The scaling service, under any load and with the broker coming and going
NextScaling ==
    \/ BrokerDown
    \/ BrokerUp
    \/ Tick
    \/ \E n \in QueueLoads : Workload(n)
    \/ ScalingStep

ScalingSpec == Init /\ [][NextScaling]_vars

\* The pipeline with a single worker process
NextOneWorker ==
    \/ BrokerDown
    \/ BrokerUp
    \/ \E t \in Tasks : FileLost(t)
    \/ ApiStep
    \/ WorkerStep(1)

OneWorkerSpec == Init /\ [][NextOneWorker]_vars

\* The pipeline with the broker reachable throughout and every worker
\* running: a worker's loop iteration that can be taken is taken
NextLive ==
    \/ \E t \in Tasks : FileLost(t)
    \/ ApiStep
    \/ \E w \in Workers : WorkerStep(w)

LiveSpec ==
    /\ Init
    /\ [][NextLive]_vars
    /\ \A w \in Workers : WF_vars(WorkerStep(w))

\* The ingest endpoint under every upload of the model, with the broker
\* coming and going
NextApi ==
    \/ BrokerDown
    \/ BrokerUp
    \/ Upload(FileNames, FileSizes)
    \/ SubmitSetexData
    \/ SubmitSetexStatus
    \/ SubmitLpush

ApiSpec == Init /\ [][NextApi]_vars

\* The pipeline with a client that asks for the status of tasks, of ids that
\* name no task and of ids that are too short
NextGet ==
    \/ BrokerDown
    \/ BrokerUp
    \/ Upload(ValidNames, ValidSizes)
    \/ SubmitSetexData
    \/ SubmitSetexStatus
    \/ SubmitLpush
    \/ \E req \in GetRequests : GetClassificationStatus(req)
    \/ \E w \in Workers : WorkerStep(w)

GetSpec == Init /\ [][NextGet]_vars

\* The pipeline with status records that expire and a broker that comes
\* and goes
NextExpiry ==
    \/ BrokerDown
    \/ BrokerUp
    \/ Upload(ValidNames, ValidSizes)
    \/ SubmitSetexData
    \/ SubmitSetexStatus
    \/ SubmitLpush
    \/ \E t \in Tasks : StatusExpires(t)
    \/ \E w \in Workers : WorkerStep(w)

ExpirySpec == Init /\ [][NextExpiry]_vars

\* The pipeline with status records that expire and a client that asks for
\* the status of tasks
NextRecord ==
    \/ BrokerDown
    \/ BrokerUp
    \/ Upload(ValidNames, ValidSizes)
    \/ SubmitSetexData
    \/ SubmitSetexStatus
    \/ SubmitLpush
    \/ \E t \in Tasks : StatusExpires(t)
    \/ \E t \in 1..MaxPolled :
          GetClassificationStatus([len |-> UUID_LENGTH, task |-> t])
    \/ \E w \in Workers : WorkerStep(w)

RecordSpec == Init /\ [][NextRecord]_vars

\* The pipeline with a caller that waits for results and a client that polls
NextWait ==
    \/ BrokerDown
    \/ BrokerUp
    \/ Upload(ValidNames, ValidSizes)
    \/ SubmitSetexData
    \/ SubmitSetexStatus
    \/ SubmitLpush
    \/ \E t \in 1..MaxPolled : GetClassificationResult(t)
    \/ \E t \in 1..MaxPolled : Poll(t)
    \/ \E w \in Workers : WorkerStep(w)

WaitSpec == Init /\ [][NextWait]_vars

\* The admin endpoints during the service's first monitor tick and one
\* manual scaling request, with the broker coming and going
NextAdmin ==
    \/ BrokerDown
    \/ BrokerUp
    \/ MonitorReadQueue
    \/ MonitorReadWorkers
    \/ MonitorPublish
    \/ MonitorDecide
    \/ \E count \in ManualCounts : ManualScale(count)
    \/ \E c \in Callers :
          \/ ScaleHsetTime(c)
          \/ ScaleHsetCount(c)
          \/ ScaleHsetTarget(c)
          \/ ScaleCommit(c)
    \/ HealthCheck
    \/ GetScalingStatus

AdminSpec == Init /\ [][NextAdmin]_vars

\* Worker-count discovery during the service's first monitor tick and one
\* manual scaling request, in every environment
NextStats ==
    \/ BrokerDown
    \/ BrokerUp
    \/ MonitorReadQueue
    \/ MonitorReadWorkers
    \/ MonitorPublish
    \/ MonitorDecide
    \/ \E count \in ManualCounts : ManualScale(count)
    \/ \E c \in Callers :
          \/ ScaleHsetTime(c)
          \/ ScaleHsetCount(c)
          \/ ScaleHsetTarget(c)
          \/ ScaleCommit(c)
    \/ \E env \in EnvValues, docker \in DockerOutcomes :
          GetWorkerStatsCall(env, docker)

StatsSpec == Init /\ [][NextStats]_vars

\* The classifier on its own, over every score vector and model answer
NextClassifier ==
    \E type_scores \in ScoreVectors, model_prediction \in ModelClasses :
        Predict(type_scores, model_prediction)

ClassifierSpec == Init /\ [][NextClassifier]_vars

\* Workers that are told to shut down while tasks come in; the broker stays
\* reachable and every worker's loop keeps running until it exits
NextShutdown ==
    \/ Upload(ValidNames, ValidSizes)
    \/ SubmitSetexData
    \/ SubmitSetexStatus
    \/ SubmitLpush
    \/ \E t \in Tasks : FileLost(t)
    \/ \E w \in Workers : WorkerRun(w)
    \/ \E w \in Workers : HandleShutdown(w)

ShutdownSpec ==
    Init /\ [][NextShutdown]_vars /\ \A w \in Workers : WF_vars(WorkerRun(w))

\* The run loops of the workers, with their test, against a broker that
\* comes and goes; every worker's loop keeps running until it exits
NextLoop ==
    \/ BrokerDown
    \/ BrokerUp
    \/ Upload(ValidNames, ValidSizes)
    \/ SubmitSetexData
    \/ SubmitSetexStatus
    \/ SubmitLpush
    \/ \E w \in Workers : WorkerRun(w)
    \/ \E w \in Workers : HandleShutdown(w)

LoopSpec ==
    Init /\ [][NextLoop]_vars /\ \A w \in Workers : WF_vars(WorkerRun(w))

----------------------------------------------------------------------------
\* Properties

InQueue(t) == \E i \in 1..Len(queue) : queue[i] = t
Popped(t)  == \E i \in 1..Len(pop_log) : pop_log[i] = t
Terminal(s) == s \in {"completed", "failed"}

StatusRank(s) ==
    CASE s = "none"       -> 0
      [] s = "pending"    -> 1
      [] s = "processing" -> 2
      [] OTHER            -> 3

\* C1: the statuses a client is shown for a task never move backward along
\* pending, processing, completed-or-failed, and never change once the client
\* has been shown completed or failed.
C1_StatusMonotonic ==
    [][\A t \in Tasks :
          /\ StatusRank(observed'[t]) >= StatusRank(observed[t])
          /\ Terminal(observed[t]) => observed'[t] = observed[t]]_vars

\* A client has been shown failed for a task whose worker lost the broker
\* in the middle of publishing a success
C1_Witness ==
    \E t \in Tasks : observed[t] = "failed" /\ Len(results[t]) = 2

\* C2: a task's result queue never holds more than one element.
C2_UniqueResultWrite == \A t \in Tasks : Len(results[t]) <= 1

\* C3: every task that is in the queue or has been popped has its task-data
\* record and its status record, a worker about to read the status of the
\* task it popped finds it, and once past that update the record reads
\* processing.
C3_StatusBeforeVisible ==
    /\ \A t \in Tasks :
          (InQueue(t) \/ Popped(t)) =>
              (task_status[t] # Missing /\ t \in task_data)
    /\ \A w \in Workers :
          /\ w_pc[w] = "claim_get" => task_status[w_task[w]] # Missing
          /\ w_pc[w] = "process" => task_status[w_task[w]].status = "processing"

\* A worker has popped a task, read its status record and marked it
C3_Witness ==
    \E w \in Workers :
        /\ w_pc[w] = "process"
        /\ task_status[w_task[w]].status = "processing"

\* C4: with one worker, tasks are popped in the order they were enqueued
\* (task ids are minted in the order of the submits).
C4_FifoOneWorker ==
    \A i, j \in 1..Len(pop_log) : i < j => pop_log[i] < pop_log[j]

\* C5: the worker count stays within [MIN_WORKERS, MAX_WORKERS], in memory
\* and in the metrics hash (once the field is set).
C5_ScalingBounds ==
    /\ MIN_WORKERS <= current_worker_count
    /\ current_worker_count <= MAX_WORKERS
    /\ metrics.current_worker_count # NoValue =>
          /\ MIN_WORKERS <= metrics.current_worker_count
          /\ metrics.current_worker_count <= MAX_WORKERS

\* A manual request above MAX_WORKERS has been carried out
C5_Witness ==
    /\ man_count > 0
    /\ man_response = 200
    /\ current_worker_count = MAX_WORKERS
    /\ metrics.current_worker_count = MAX_WORKERS

\* C6: a scaling action (scale_workers recording last_scaling_time and the
\* new count) comes no sooner than the cooldown after the one before it,
\* whoever called.
C6_Cooldown ==
    [][\A c \in Callers :
          (sw_pc[c] = "commit" /\ sw_pc'[c] = "idle") =>
              now - last_scaling_time >= COOLDOWN]_vars

C8_FailureBecomesFailed ==
    \A t \in Tasks :
        failure[t] # "none" =>
            /\ task_status[t].status # "completed"
            /\ t \in returned =>
                  /\ task_status[t].status = "failed"
                  /\ task_status[t].predicted_type = "unknown"
                  /\ task_status[t].success = "false"
                  /\ task_status[t].error # Absent

\* C9: once process_task has returned for a task, its staged file is gone.
C9_StagedFileUnlinked == \A t \in returned : t \notin files

\* C10: an upload whose extension, compared without regard to case, is not
\* allowed is answered 415, an allowed one of more than 50 MiB is answered
\* 413, and neither touches the broker or leaves a staged file.
SameIgnoringCase(a, b) ==
    /\ Len(a) = Len(b)
    /\ \A i \in 1..Len(a) : LowerChar(a[i]) = LowerChar(b[i])

AllowedIgnoringCase(name) ==
    \E e \in ALLOWED_FILE_EXTENSIONS : SameIgnoringCase(SplitExt(name), e)

C10_RejectionsHaveNoEffect ==
    [][(api_pc = "idle" /\ <<api_pc, api_req, api_response>>' #
                             <<api_pc, api_req, api_response>>) =>
          LET name == IF api_pc' = "idle" THEN api_response'.name
                      ELSE api_req'.name
              size == IF api_pc' = "idle" THEN api_response'.size
                      ELSE api_req'.size
              rejected == /\ api_pc' = "idle"
                          /\ UNCHANGED <<queue, task_data, task_status,
                                         results, metrics, files>>
          IN  /\ ~AllowedIgnoringCase(name) =>
                    (api_response'.code = 415 /\ rejected)
              /\ (AllowedIgnoringCase(name) /\ size > 50 * 1024 * 1024) =>
                    (api_response'.code = 413 /\ rejected)]_vars

\* An oversize upload with an upper-case allowed extension was answered 413
\* after a task had been queued
C10_Witness ==
    /\ api_response.code = 413
    /\ api_response.name = <<"a", ".", "P", "D", "F">>
    /\ queue # <<>>

\* C11: a POST /classify_file in which a broker write of
\* send_classification_task fails is answered 503 or 500, its staged file is
\* removed and its task is not in the queue; and whenever the last answer is
\* 503 or 500 the request's file and task are in neither place.
C11_FailedSubmitCleanedUp ==
    [][(api_pc \in {"staged", "data_written", "status_written"}
        /\ ~redis_up /\ api_pc' # api_pc) =>
          /\ api_pc' = "idle"
          /\ api_response'.code \in {503, 500}
          /\ next_id \notin files'
          /\ \A i \in 1..Len(queue') : queue'[i] # next_id
          /\ queue' = queue]_vars

\* C12: the task id of a successful submit is the id of no task submitted
\* before it, and a submit writes only records that did not exist: it never
\* overwrites the task-data or status record of another task.  (Result queue
\* and record keys are the id with a fixed prefix.)
C12_TaskIdFreshness ==
    [][(api_pc' # api_pc) =>
          /\ \A t \in Tasks :
                task_status'[t] # task_status[t] => task_status[t] = Missing
          /\ api_pc' = "data_written" => next_id \notin task_data
          /\ Len(queue') > Len(queue) =>
                (~InQueue(Head(queue')) /\ ~Popped(Head(queue')))]_vars

\* Two submits have succeeded
C12_Witness ==
    /\ api_response.code = 202
    /\ \A t \in {1, 2} : InQueue(t) \/ Popped(t)

\* C13: whenever the broker answers, GET /classification/{task_id} for an
\* accepted task (queued, or popped by a worker, wherever that worker is in
\* its processing) is answered 200 with status pending, processing,
\* completed or failed.
C13_RoundTrip ==
    [][(get_response' # get_response /\ redis_up
        /\ get_response'.task \in Tasks
        /\ (InQueue(get_response'.task) \/ Popped(get_response'.task))) =>
          /\ get_response'.code = 200
          /\ get_response'.status \in
                {"pending", "processing", "completed", "failed"}]_vars

\* A client was answered 200 / processing while the worker holding the task
\* was in the middle of publishing its result
C13_Witness ==
    /\ get_response.code = 200
    /\ get_response.status = "processing"
    /\ \E w \in Workers :
          /\ w_task[w] = get_response.task
          /\ w_pc[w] \in {"pub_get", "pub_setex", "fail_get", "fail_setex"}

\* C14: GET /classification/{task_id} answers 400 to an id shorter than 10
\* characters whether or not the broker can be read, 404 to a longer id with
\* no status record, 503 when the broker call raises a connection error, and
\* changes no record, queue or file.
C14_GetErrorMapping ==
    [][(get_response' # get_response) =>
          /\ get_response'.len < 10 => get_response'.code = 400
          /\ (get_response'.len >= 10 /\ redis_up
               /\ StoredStatus(get_response'.task) = Missing) =>
                 get_response'.code = 404
          /\ (get_response'.len >= 10 /\ ~redis_up) =>
                 get_response'.error # "none"
          /\ get_response'.error = "ConnectionError" =>
                 get_response'.code = 503
          /\ UNCHANGED <<broker_vars, metrics, files>>]_vars

\* An id that is too short was answered 400 while the broker was unreachable
C14_Witness ==
    /\ get_response.code = 400
    /\ get_response.len = 9
    /\ ~redis_up
    /\ queue # <<>>

\* C15: once POST /scaling/workers/{n} has been answered, the answer is 422
\* and scale_workers was not called if n is outside 1..20; it is 500 if the
\* orchestrator command failed (non-zero exit or raised error); and it is 200
\* only if the command did not fail.
C15_ManualReportsFailure ==
    (man_count > 0 /\ sw_pc["manual"] = "idle") =>
        LET call == sw_call["manual"]
        IN  /\ call.target \notin 1..20 =>
                  (man_response = 422 /\ call.orchestrator = "not_called")
            /\ call.orchestrator \in {"failed", "raised"} =>
                  man_response = 500
            /\ man_response = 200 =>
                  call.orchestrator \notin {"failed", "raised"}

\* The value of current_worker_count + max(1, queue_length // 10), capped
ScaleUpTarget(queue_length) ==
    Min(MAX_WORKERS, current_worker_count + Max(1, queue_length \div 10))

\* C16: a monitor tick outside the cooldown that saw queue_length above
\* QUEUE_HIGH_THRESHOLD and worker_count below MAX_WORKERS calls scale_workers
\* with min(MAX_WORKERS, current_worker_count + max(1, queue_length // 10)),
\* and that target is greater than current_worker_count.
C16_ScaleUpDecision ==
    [][(mon_pc = "decide" /\ mon_pc' # "decide"
        /\ mon_local.current_time - last_scaling_time >= 60
        /\ mon_local.queue_length > QUEUE_HIGH_THRESHOLD
        /\ mon_local.worker_count < MAX_WORKERS) =>
          /\ sw_call'["monitor"].orchestrator # "not_called"
          /\ sw_call'["monitor"].target = ScaleUpTarget(mon_local.queue_length)
          /\ sw_call'["monitor"].target > current_worker_count]_vars

\* Scenario S6 for a tick that saw a queue length of at least `least`: the
\* tick ends (the monitor goes to sleep) without a broker error having ended
\* it, no manual request was made, the count was 3, the last scaling was at
\* least the cooldown before the tick and the orchestrator did not fail or
\* was not needed; then the reported count is in 4..10.
ScenarioS6(least) ==
    (/\ mon_pc # "sleep" /\ mon_pc' = "sleep"
     /\ ~(~redis_up /\ (mon_pc = "hmset" \/ sw_pc["monitor"] # "idle"))
     /\ man_count' = 0
     /\ current_worker_count = 3
     /\ mon_local.current_time - last_scaling_time >= 60
     /\ mon_local.queue_length >= least
     /\ sw_call'["monitor"].orchestrator \in {"ok", "not_run", "not_called"})
    => (ReportedWorkerCount' >= 4 /\ ReportedWorkerCount' <= 10)

\* C17 as stated: after one scaling tick that saw queue_length >= 20, with
\* current_worker_count = 3, the last scaling more than the cooldown ago and
\* the orchestrator succeeding, the reported current_worker_count is in
\* [4, 10].
C17_ScenarioS6 == [][ScenarioS6(20)]_vars

\* C17 as amended: the same for a tick that saw queue_length > 20.
C17_ScenarioS6Above == [][ScenarioS6(21)]_vars

\* A tick that saw 35 queued tasks with 3 workers has scaled to 6
C17_Witness ==
    /\ mon_pc = "sleep"
    /\ man_count = 0
    /\ sw_call["monitor"] = [target |-> 6, orchestrator |-> "ok"]
    /\ current_worker_count = 6
    /\ ReportedWorkerCount = 6

\* C18: a monitor tick outside the cooldown that saw queue_length below
\* QUEUE_LOW_THRESHOLD and worker_count above MIN_WORKERS calls scale_workers
\* with exactly current_worker_count - 1, which is not below MIN_WORKERS.
C18_ScaleDownDecision ==
    [][(mon_pc = "decide" /\ mon_pc' # "decide"
        /\ mon_local.current_time - last_scaling_time >= 60
        /\ mon_local.queue_length < QUEUE_LOW_THRESHOLD
        /\ mon_local.worker_count > MIN_WORKERS) =>
          /\ sw_call'["monitor"].orchestrator # "not_called"
          /\ sw_call'["monitor"].target = current_worker_count - 1
          /\ sw_call'["monitor"].target >= MIN_WORKERS]_vars

\* C19: on a monitor tick within 60 s of the last scaling the controller
\* does not read the queue length, does not read the worker count and does
\* not call scale_workers.
C19_CooldownTickInert ==
    [][(now - last_scaling_time < 60) =>
          /\ ~(mon_pc = "llen" /\ mon_pc' = "stats")
          /\ ~(mon_pc = "stats" /\ mon_pc' = "hmset")
          /\ (mon_pc = "decide" =>
                 sw_call'["monitor"] = sw_call["monitor"])]_vars

\* C20: a call scale_workers(n) with n clamped to [MIN_WORKERS, MAX_WORKERS]
\* equal to current_worker_count runs no orchestrator command, returns at
\* once, writes nothing to the metrics hash and leaves last_scaling_time and
\* current_worker_count as they were.
C20_NoOpOnClampedEqual ==
    [][\A c \in Callers :
          (/\ sw_call'[c] # sw_call[c]
           /\ sw_call'[c].orchestrator # "not_called"
           /\ Max(MIN_WORKERS, Min(MAX_WORKERS, sw_call'[c].target))
                 = current_worker_count) =>
             /\ sw_call'[c].orchestrator = "not_run"
             /\ sw_pc'[c] = "idle"
             /\ UNCHANGED <<metrics, last_scaling_time,
                            current_worker_count>>]_vars

\* A submit failed after its task-data record had been written
C11_Witness ==
    /\ api_pc = "idle"
    /\ api_response.code \in {503, 500}
    /\ (next_id - 1) \in task_data
    /\ (next_id - 1) \notin files
    /\ \A i \in 1..Len(queue) : queue[i] # next_id - 1

\* A step on which caller c calls scale_workers
ScaleWorkersCalled(c) ==
    /\ sw_call'[c] # sw_call[c]
    /\ sw_call'[c].orchestrator # "not_called"

\* The writes of a scale_workers call whose orchestrator step ended as
\* `outcome`, on the steps the broker accepts: the hash gets last_scaling_time
\* = now, then current_worker_count and target_worker_count = the clamped
\* target, then the service's own last_scaling_time = now and
\* current_worker_count = the clamped target, and the call returns.
RecordsClamped(c, outcome) ==
    LET clamped == Clamp(sw_call[c].target)
    IN  (sw_call[c].orchestrator = outcome /\ sw_pc'[c] # sw_pc[c]) =>
          /\ (sw_pc[c] = "hset_time" /\ redis_up) =>
                 /\ metrics' = [metrics EXCEPT !.last_scaling_time = now]
                 /\ sw_pc'[c] = "hset_count"
          /\ (sw_pc[c] = "hset_count" /\ redis_up) =>
                 /\ metrics' = [metrics EXCEPT
                                   !.current_worker_count = clamped]
                 /\ sw_pc'[c] = "hset_target"
          /\ (sw_pc[c] = "hset_target" /\ redis_up) =>
                 /\ metrics' = [metrics EXCEPT
                                   !.target_worker_count = clamped]
                 /\ sw_pc'[c] = "commit"
          /\ sw_pc[c] = "commit" =>
                 /\ current_worker_count' = clamped
                 /\ last_scaling_time' = now
                 /\ sw_pc'[c] = "idle"

\* C21: a call scale_workers(n) with clamp(n) different from
\* current_worker_count whose docker-compose command succeeds runs that
\* command with clamp(n), writes clamp(n) as current_worker_count into the
\* metrics hash and into the service, and sets last_scaling_time to now
\* (each hash write provided the broker accepts it).
C21_SuccessfulScaleRecorded ==
    [][\A c \in Callers :
          /\ (/\ ScaleWorkersCalled(c)
              /\ sw_call'[c].orchestrator = "ok"
              /\ Clamp(sw_call'[c].target) # current_worker_count) =>
                 /\ sw_pc'[c] = "hset_time"
                 /\ sw_target'[c] = Clamp(sw_call'[c].target)
                 /\ sw_target'[c] >= MIN_WORKERS
                 /\ sw_target'[c] <= MAX_WORKERS
          /\ RecordsClamped(c, "ok")]_vars

\* POST /scaling/workers/20 with the command succeeding has recorded 10
C21_Witness ==
    /\ sw_pc["manual"] = "idle"
    /\ man_response = 200
    /\ sw_call["manual"] = [target |-> MANUAL_MAX, orchestrator |-> "ok"]
    /\ current_worker_count = MAX_WORKERS
    /\ metrics.current_worker_count = MAX_WORKERS
    /\ last_scaling_time = now

\* C22: a call of scale_workers whose docker-compose command exits non-zero
\* or raises returns leaving current_worker_count, the metrics hash and
\* last_scaling_time as they were, so a tick that was outside the cooldown
\* before the call is outside it after.
C22_FailureLeavesState ==
    [][\A c \in Callers :
          (/\ ScaleWorkersCalled(c)
           /\ sw_call'[c].orchestrator \in {"failed", "raised"}) =>
             /\ UNCHANGED <<current_worker_count, metrics, last_scaling_time>>
             /\ sw_pc'[c] = "idle"
             /\ (now - last_scaling_time >= COOLDOWN =>
                    now' - last_scaling_time' >= COOLDOWN)]_vars

\* The monitor's scaling attempt failed outside the cooldown and left the
\* initial state
C22_Witness ==
    /\ mon_pc = "sleep"
    /\ sw_call["monitor"].orchestrator \in {"failed", "raised"}
    /\ current_worker_count = WORKER_REPLICAS
    /\ metrics.current_worker_count = NoValue
    /\ now - last_scaling_time >= COOLDOWN

\* C23: a call scale_workers(n) with n different from current_worker_count
\* that finds no docker-compose goes on to record: it writes clamp(n) as
\* current_worker_count into the metrics hash, sets the service's
\* current_worker_count to clamp(n) and sets last_scaling_time (each hash
\* write provided the broker accepts it).
C23_UnavailableRecordsIntent ==
    [][\A c \in Callers :
          /\ (/\ ScaleWorkersCalled(c)
              /\ sw_call'[c].orchestrator = "unavailable"
              /\ sw_call'[c].target # current_worker_count) =>
                 /\ sw_pc'[c] = "hset_time"
                 /\ sw_target'[c] = Clamp(sw_call'[c].target)
          /\ RecordsClamped(c, "unavailable")]_vars

\* The monitor has scaled down without docker-compose: the intent 2 is in
\* the hash and in the service
C23_Witness ==
    /\ mon_pc = "sleep"
    /\ sw_call["monitor"] = [target |-> 2, orchestrator |-> "unavailable"]
    /\ current_worker_count = 2
    /\ metrics.current_worker_count = 2
    /\ metrics.target_worker_count = 2
    /\ last_scaling_time = now

\* A step on which worker w takes a task off the queue
WorkerPops(w) == w_task'[w] # w_task[w] /\ w_task'[w] # 0

\* Every task taken off the queue is in a worker's hands or has its result
\* on its result queue
InFlightOrPublished ==
    \A t \in Tasks :
        Popped(t) => \/ \E w \in Workers : w_task[w] = t /\ w_pc[w] # "stopped"
                     \/ Len(results[t]) >= 1

\* A step of the shutdown discipline.  Once running is false a worker takes
\* no task off the queue (when under_way: none but the one of the call that
\* was under way when the flag fell); the loop is left only with the flag
\* false and no task in hand, and for good; no task that was taken off the
\* queue is put back.
ShutdownStep(under_way) ==
    \A w \in Workers :
       /\ (~w_running[w] /\ WorkerPops(w)) =>
              (under_way /\ w_pc[w] = "blpop")
       /\ (w_pc[w] # "stopped" /\ w_pc'[w] = "stopped") =>
              (~w_running[w] /\ w_task[w] = 0)
       /\ w_pc[w] = "stopped" => w_pc'[w] = "stopped"
       /\ \A t \in Tasks :
              Popped(t) => \A i \in 1..Len(queue') : queue'[i] # t

\* A worker whose flag is false leaves the loop
ShutdownEnds ==
    \A w \in Workers : (~w_running[w]) ~> (w_pc[w] = "stopped")

C25_ClaimMarksProcessing ==
    [][\A w \in Workers :
          LET t == w_task[w]
          IN  /\ (w_pc[w] \in {"claim_get", "claim_setex"}
                  /\ w_pc'[w] = "process") =>
                     /\ w_task'[w] = t
                     /\ task_status'[t] # Missing =>
                            task_status'[t].status = "processing"
              /\ (w_pc[w] = "claim_get" /\ redis_up
                  /\ task_status[t] = Missing /\ w_pc'[w] # w_pc[w]) =>
                     /\ w_pc'[w] = "process"
                     /\ w_task'[w] = t
                     /\ task_status'[t] = Missing]_vars

\* Two claims have returned: one of a task whose record had expired, one of
\* a task whose record now reads processing
C25_Witness ==
    \E w, v \in Workers :
        /\ w_pc[w] = "process" /\ task_status[w_task[w]] = Missing
        /\ w_pc[v] = "process" /\ task_status[w_task[v]] # Missing
        /\ task_status[w_task[v]].status = "processing"

\* C26: a call of get_classification_result that finds no element on the
\* result queue returns nothing and leaves the task queue, the status
\* records, the result queues, the task data and the staged files as they
\* are; and a call on an empty result queue that the broker answers is such
\* a call.
C26_WaiterTimeoutKeepsTask ==
    [][(wait_response' # wait_response) =>
          LET t == wait_response'.task
          IN  /\ wait_response'.outcome = "timeout" =>
                     /\ results[t] = <<>>
                     /\ UNCHANGED <<queue, task_status, results, task_data,
                                    files, worker_vars>>
              /\ (redis_up /\ results[t] = <<>>) =>
                     wait_response'.outcome = "timeout"]_vars

\* The last wait for task 1 timed out; since then the task has been
\* completed, its result is on its queue and a poll has seen completed
C26_Witness ==
    /\ wait_response = [task |-> 1, outcome |-> "timeout"]
    /\ task_status[1] # Missing
    /\ task_status[1].status = "completed"
    /\ Len(results[1]) = 1
    /\ observed[1] = "completed"

\* C27: GET /health answers 503 with status unhealthy and redis down when
\* the ping fails; when the ping succeeds it answers 200, with status
\* degraded if the discovered worker count is 0 and healthy if it is above 0.
C27_HealthMapping ==
    [][(health_response' # health_response) =>
          /\ ~redis_up =>
                 /\ health_response'.code = 503
                 /\ health_response'.status = "unhealthy"
                 /\ health_response'.redis = "down"
          /\ redis_up =>
                 /\ health_response'.code = 200
                 /\ health_response'.count = 0 =>
                        health_response'.status = "degraded"
                 /\ health_response'.count > 0 =>
                        health_response'.status = "healthy"]_vars

\* The hash lacks a field that WorkerScalingStatusResponse requires
HashIncomplete ==
    \E f \in {"current_worker_count", "min_workers", "max_workers",
               "last_scaling_time"} : metrics[f] = NoValue

\* C28: GET /scaling/status always answers 200; when the hash cannot be read
\* or is empty or incomplete the answer carries the service's in-memory
\* current_worker_count, min_workers and max_workers; and the request
\* changes neither the hash nor the service's state.
C28_StatusBestEffort ==
    [][(status_response' # status_response) =>
          /\ status_response'.code = 200
          /\ (~redis_up \/ HashIncomplete) =>
                 /\ status_response'.current_worker_count
                        = current_worker_count
                 /\ status_response'.min_workers = MIN_WORKERS
                 /\ status_response'.max_workers = MAX_WORKERS
          /\ UNCHANGED <<metrics, current_worker_count, last_scaling_time,
                         mon_pc, mon_local, sw_pc, sw_target>>]_vars

\* A manual scaling has written its fields, the monitor has not published
\* yet: the hash is incomplete and the answer is the in-memory state
C28_Witness ==
    /\ metrics.current_worker_count # NoValue
    /\ metrics.min_workers = NoValue
    /\ sw_pc["manual"] = "idle"
    /\ status_response = InMemoryStatus
    /\ current_worker_count # WORKER_REPLICAS

\* The claim's three conditions, read off the scores: the top score, the
\* second score (the largest among the other types) and the type that holds
\* the top score
OverrideExpected ==
    LET scores == prediction.scores
        n      == Len(Categories)
        top    == MaxOf({scores[i] : i \in 1..n})
        first  == CHOOSE i \in 1..n : scores[i] = top
        second == MaxOf({scores[i] : i \in (1..n) \ {first}})
    IN  /\ top >= 3
        /\ second = 0 \/ 100 * top > 65 * (top + second)
        /\ Categories[first] # prediction.model

C30_TerminalRecordShape ==
    \A t \in Tasks :
        LET rec == task_status[t]
        IN  /\ rec.status = "completed" =>
                  rec.success = "true" /\ rec.predicted_type # Absent
            /\ rec.status = "failed" =>
                  rec.success = "false" /\ rec.predicted_type = "unknown"
            /\ rec.status \in {"pending", "processing"} =>
                  rec.predicted_type = Absent /\ rec.success = Absent

\* One task completed and another failed
C30_Witness ==
    \E t, u \in Tasks :
        /\ task_status[t].status = "completed"
        /\ task_status[u].status = "failed"

\* The positions of a worker inside update_task_status: before its redis
\* get and before its redis setex
UpdateGets    == {"claim_get", "pub_get", "fail_get"}
UpdateSetexes == {"claim_setex", "pub_setex", "fail_setex"}

\* C31: update_task_status for a task whose status record does not exist
\* returns False and creates no record; for a record that exists it writes
\* the record it read with only status and the supplied predicted_type,
\* success and error replaced, task_id and filename kept; and
\* get_task_status on a missing record returns nothing (the endpoint
\* answers 404 without a status).
C31_UpdatesNeverResurrect ==
    [][/\ \A w \in Workers :
             LET t == w_task[w]
             IN  /\ (/\ w_pc[w] \in UpdateGets
                      /\ w_pc'[w] # w_pc[w]
                      /\ redis_up
                      /\ task_status[t] = Missing) =>
                        /\ task_status' = task_status
                        /\ w_pc'[w] \notin UpdateSetexes
                 /\ (/\ w_pc[w] \in UpdateSetexes
                      /\ w_pc'[w] # w_pc[w]
                      /\ task_status'[t] # task_status[t]) =>
                        /\ w_local[w] # Missing
                        /\ task_status'[t].task_id = w_local[w].task_id
                        /\ task_status'[t].filename = w_local[w].filename
                        /\ task_status'[t].task_id = t
                        /\ task_status'[t].status =
                              CASE w_pc[w] = "claim_setex" -> "processing"
                                [] w_pc[w] = "pub_setex"   -> "completed"
                                [] OTHER                   -> "failed"
                        /\ w_pc[w] = "claim_setex" =>
                              /\ task_status'[t].predicted_type
                                    = w_local[w].predicted_type
                              /\ task_status'[t].success = w_local[w].success
                        /\ w_pc[w] # "fail_setex" =>
                              task_status'[t].error = w_local[w].error
       /\ (/\ get_response' # get_response
           /\ redis_up
           /\ StoredStatus(get_response'.task) = Missing) =>
             /\ get_response'.code = 404
             /\ get_response'.status = "none"]_vars

\* A worker's completed update found no record and wrote none, a client
\* that asked for the task got 404, and the other task's record was updated
\* with its task_id and filename kept
C31_Witness ==
    \E w \in Workers, u \in Tasks :
        /\ w_pc[w] = "cleanup"
        /\ task_status[w_task[w]] = Missing
        /\ get_response.code = 404
        /\ get_response.task = w_task[w]
        /\ u # w_task[w]
        /\ task_status[u].status = "processing"
        /\ task_status[u].task_id = u
        /\ task_status[u].filename \in ValidNames

\* The positions of a worker at a broker call of the claim
\* (get_next_classification_task) and of a publish (send_classification_result
\* on the success path and in the except branch)
ClaimCalls   == {"blpop", "claim_get", "claim_setex"}
PublishCalls == {"pub_rpush", "pub_get", "pub_setex"}
FailPublishCalls == {"fail_rpush", "fail_get", "fail_setex"}

\* A step of a worker whose broker call raises leaves it in the loop: back
\* at the loop test, or (from the publish of the success path) in the
\* except branch of process_task; and the loop is left only from its test
\* with running false
LoopSurvives ==
    \A w \in Workers :
       /\ (~redis_up /\ w_pc'[w] # w_pc[w] /\ w_pc[w] \in ClaimCalls) =>
              w_pc'[w] = "idle"
       /\ (~redis_up /\ w_pc'[w] # w_pc[w] /\ w_pc[w] \in PublishCalls) =>
              w_pc'[w] = "fail_rpush"
       /\ (~redis_up /\ w_pc'[w] # w_pc[w] /\ w_pc[w] \in FailPublishCalls) =>
              w_pc'[w] = "idle"
       /\ (w_pc'[w] = "stopped" /\ w_pc[w] # "stopped") =>
              (w_pc[w] = "idle" /\ ~w_running[w])
       /\ (w_pc[w] = "idle" /\ w_running[w] /\ w_pc'[w] # w_pc[w]) =>
              w_pc'[w] \in {"blpop", "claim_get"}

\* C32: a broker exception during claim or publish never ends the run loop:
\* the worker comes back to the loop test, from which it goes on to the next
\* claim, and it leaves the loop only once running is false.
C32_LoopSurvivesBrokerErrors ==
    /\ [][LoopSurvives]_vars
    /\ \A w \in Workers : (w_pc[w] # "stopped") ~> (w_pc[w] \in {"idle", "stopped"})
    /\ [](\A w \in Workers : w_pc[w] = "stopped" => ~w_running[w])

\* A task was taken off the queue and lost to a broker error (nobody holds
\* it and nothing was published for it), both workers are still in their
\* loops with running true, and one of them has claimed the later task
C32_Witness ==
    \E t, u \in Tasks :
        /\ Popped(t) /\ t \notin returned /\ results[t] = <<>>
        /\ \A w \in Workers :
              w_task[w] # t /\ w_running[w] /\ w_pc[w] # "stopped"
        /\ pop_log = <<t, u>>
        /\ \E w \in Workers : w_task[w] = u /\ w_pc[w] = "process"

\* C33: the cached current_worker_count and the metrics hash are written
\* only by the monitor loop: no step of a request handler (a scale_workers
\* call made by POST /scaling/workers/{count}) changes either.
C33_SingleWriter ==
    [][(current_worker_count' # current_worker_count \/ metrics' # metrics) =>
          sw_pc'["manual"] = sw_pc["manual"]]_vars

\* C34: get_worker_stats answers with the hash's current_worker_count
\* whenever the hash is readable and has the field; otherwise with the
\* WORKER_REPLICAS value, which defaults to the in-memory count; the docker
\* enumeration and then the in-memory count are used only when the earlier
\* sources fail.
C34_DiscoveryOrder ==
    stats_call # NoStatsCall =>
        LET c == stats_call
            from_hash == c.readable /\ c.hash # NoValue
            env_fails == c.env.set /\ ~c.env.valid
        IN  /\ from_hash => c.result = c.hash
            /\ (~from_hash /\ ~c.env.set) => c.result = c.in_memory
            /\ (~from_hash /\ c.env.set /\ c.env.valid) =>
                  c.result = c.env.value
            /\ (~from_hash /\ env_fails /\ c.docker.listed) =>
                  c.result = c.docker.count
            /\ (~from_hash /\ env_fails /\ ~c.docker.listed) =>
                  c.result = c.in_memory

\* The hash was readable and had the field, the environment named another
\* number, and the answer was the hash's
C34_Witness ==
    /\ stats_call.readable
    /\ stats_call.hash # NoValue
    /\ stats_call.env.set /\ stats_call.env.valid
    /\ stats_call.env.value # stats_call.hash
    /\ stats_call.result = stats_call.hash

\* C35: whenever a task's result queue holds an element, the task's status
\* record, if there is one, is completed or failed; and once a waiter has
\* received the task's result, no later read of the status gives processing.
C35_ResultImpliesTerminal ==
    /\ [](\A t \in Tasks :
            (results[t] # <<>> /\ task_status[t] # Missing) =>
                Terminal(task_status[t].status))
    /\ [][\A t \in Tasks :
            (/\ wait_response.task = t
             /\ wait_response.outcome = "result"
             /\ observed'[t] # observed[t]) =>
                observed'[t] # "processing"]_vars

\* classify_file has returned a label for the task a worker holds
Classified(w) == w_task[w] # 0 /\ w_label[w] # Absent

\* C36: once classify_file has returned a label for a task, the task's
\* status record never becomes failed and no result with success false is
\* pushed onto its result queue.
C36_SuccessNeverFailed ==
    [][\A w \in Workers :
          Classified(w) =>
             LET t == w_task[w]
             IN  /\ task_status'[t].status = "failed" =>
                        task_status[t].status = "failed"
                 /\ \A i \in 1..Len(results'[t]) :
                        results'[t][i].success = "false" =>
                           /\ i <= Len(results[t])
                           /\ results[t][i] = results'[t][i]]_vars

\* C37: each enqueued task is handed to at most one worker: no task is
\* popped twice, no two workers hold the same task, and a task a worker
\* holds is no longer in the queue.
C37_NoDoubleClaim ==
    /\ \A i, j \in 1..Len(pop_log) : i # j => pop_log[i] # pop_log[j]
    /\ \A w, v \in Workers :
          (w # v /\ w_task[w] # 0) => w_task[w] # w_task[v]
    /\ \A w \in Workers :
          w_task[w] # 0 => Popped(w_task[w]) /\ ~InQueue(w_task[w])

\* Two workers are at work at once, each on a task of its own
C37_Witness ==
    /\ Len(pop_log) = 2
    /\ \A w \in Workers : w_task[w] # 0 /\ w_pc[w] = "process"

\* C38: a worker that has taken a task off the queue goes on to process it
\* and to publish a result for it, whatever the broker does to the status
\* update of the claim: a worker lets go of a task only once a result for the
\* task is on its result queue.
C38_PoppedNeverDropped ==
    [][\A w \in Workers :
          (w_task[w] # 0 /\ w_task'[w] # w_task[w]) =>
              Len(results[w_task[w]]) >= 1]_vars

\* C39: on a monitor tick whose read of the queue length failed, the
\* controller calls no scale_workers and changes no scaling state: it goes
\* to sleep until the next tick.
C39_FailedReadNoScaling ==
    [][(mon_pc = "decide" /\ mon_local.llen_failed /\ mon_pc' # mon_pc) =>
          /\ mon_pc' = "sleep"
          /\ UNCHANGED <<metrics, current_worker_count, last_scaling_time,
                         sw_call, sw_pc>>]_vars

\* C40: whenever no scale_workers call is in progress and the hash has its
\* current_worker_count field, the in-memory current_worker_count equals it.
C40_ScalingStateConsistent ==
    (/\ \A c \in Callers : sw_pc[c] = "idle"
     /\ metrics.current_worker_count # NoValue) =>
        current_worker_count = metrics.current_worker_count

====
